---------------------------- MODULE Spec2Model ----------------------------
(***************************************************************************)
(* A model of the transaction Evaluator/Optimizer subsystem of LARPy:      *)
(* the rule engine (validation_rules.py), the evaluator (evaluator.py),    *)
(* the subagents and their coordinator (subagents.py) and the optimizer    *)
(* (optimizer.py).                                                         *)
(*                                                                         *)
(* Python values are modelled as follows.                                  *)
(*   str            a TLA+ string (Len, SubSeq and \o act on it)           *)
(*   int (wei)      a tuple of decimal digits, most significant first,     *)
(*                  without leading zeros (<<0>> is zero): Python's ints   *)
(*                  are unbounded and the amounts exceed 32 bits           *)
(*   int (gas)      an integer                                             *)
(*   dict           a function whose domain is the set of keys present     *)
(*   None           <<>> where an optional string is held, a string <<s>>  *)
(*   Decimal        [sign, int, exp] as in the decimal module              *)
(***************************************************************************)
EXTENDS Integers, Sequences, FiniteSets, TLC

(***************************************************************************)
(* Strings.  The helpers below are functions rather than operators: a      *)
(* function's argument is computed once, when the function is applied.     *)
(***************************************************************************)

\* str.lower() of one character (the characters the inputs are drawn from).
LowerChar(c) ==
    CASE c = "A" -> "a" [] c = "B" -> "b" [] c = "C" -> "c" [] c = "D" -> "d"
      [] c = "E" -> "e" [] c = "F" -> "f" [] c = "G" -> "g" [] c = "H" -> "h"
      [] c = "I" -> "i" [] c = "J" -> "j" [] c = "K" -> "k" [] c = "L" -> "l"
      [] c = "M" -> "m" [] c = "N" -> "n" [] c = "O" -> "o" [] c = "P" -> "p"
      [] c = "Q" -> "q" [] c = "R" -> "r" [] c = "S" -> "s" [] c = "T" -> "t"
      [] c = "U" -> "u" [] c = "V" -> "v" [] c = "W" -> "w" [] c = "X" -> "x"
      [] c = "Y" -> "y" [] c = "Z" -> "z" [] OTHER -> c

\* s.lower(), splitting in halves so that long calldata needs no deep recursion.
Lower[s \in STRING] ==
    IF Len(s) = 0 THEN ""
    ELSE IF Len(s) = 1 THEN LowerChar(s)
    ELSE Lower[SubSeq(s, 1, Len(s) \div 2)]
           \o Lower[SubSeq(s, Len(s) \div 2 + 1, Len(s))]

\* sub in s
Contains[s \in STRING, sub \in STRING] ==
    \E i \in 1..(Len(s) - Len(sub) + 1) : SubSeq(s, i, i + Len(sub) - 1) = sub

\* s.startswith(p)
StartsWith[s \in STRING, p \in STRING] ==
    Len(s) >= Len(p) /\ SubSeq(s, 1, Len(p)) = p

\* s[:n]
Prefix[s \in STRING, n \in Nat] == IF Len(s) <= n THEN s ELSE SubSeq(s, 1, n)

\* s[n:]
Suffix[s \in STRING, n \in Nat] ==
    IF Len(s) <= n THEN "" ELSE SubSeq(s, n + 1, Len(s))

(***************************************************************************)
(* Unbounded naturals as digit tuples.                                     *)
(***************************************************************************)

Digits == Seq(Nat)

Min(m, n) == IF m < n THEN m ELSE n

DigitChars == <<"0", "1", "2", "3", "4", "5", "6", "7", "8", "9">>

IsDigitChar(c) == \E d \in 1..10 : DigitChars[d] = c

DigitOf(c) == (CHOOSE d \in 1..10 : DigitChars[d] = c) - 1

\* Drop leading zeros (zero is <<0>>).
Norm[a \in Digits] ==
    IF \A i \in 1..Len(a) : a[i] = 0
    THEN <<0>>
    ELSE SubSeq(a,
                CHOOSE i \in 1..Len(a) : a[i] # 0 /\ \A j \in 1..(i - 1) : a[j] = 0,
                Len(a))

Zeros[n \in Int] == SubSeq([i \in 1..n |-> 0], 1, n)

\* A small natural as a digit tuple.
Big[n \in Nat] == IF n < 10 THEN <<n>> ELSE Big[n \div 10] \o <<n % 10>>

\* a * 10^k
Shift[a \in Digits, k \in Nat] == Norm[a \o Zeros[k]]

BigIsZero[a \in Digits] == \A i \in 1..Len(a) : a[i] = 0

\* a < b for digit tuples without leading zeros
LessNorm[x \in Digits, y \in Digits] ==
    \/ Len(x) < Len(y)
    \/ /\ Len(x) = Len(y)
       /\ \E i \in 1..Len(x) : /\ x[i] < y[i]
                               /\ \A j \in 1..(i - 1) : x[j] = y[j]

\* a < b
BigLess[a \in Digits, b \in Digits] == LessNorm[Norm[a], Norm[b]]

BigLeq[a \in Digits, b \in Digits] == ~BigLess[b, a]

\* Digit i of a counted from the least significant one (1), 0 beyond its length.
DigitAt(a, i) == IF i <= Len(a) THEN a[Len(a) - i + 1] ELSE 0

\* a + b: digit i (from the least significant one) and up, given the carry c
\* and the digits acc below i.
AddFrom[a \in Digits, b \in Digits, i \in Nat, c \in Nat, acc \in Digits] ==
    IF i > Len(a) /\ i > Len(b)
    THEN IF c = 0 THEN acc ELSE <<c>> \o acc
    ELSE AddFrom[a, b, i + 1, (DigitAt(a, i) + DigitAt(b, i) + c) \div 10,
                 <<(DigitAt(a, i) + DigitAt(b, i) + c) % 10>> \o acc]

BigAdd[a \in Digits, b \in Digits] == Norm[AddFrom[a, b, 1, 0, <<>>]]

\* a - b for a >= b: digit i and up, given the borrow c and the digits below
SubFrom[a \in Digits, b \in Digits, i \in Nat, c \in Nat, acc \in Digits] ==
    IF i > Len(a)
    THEN acc
    ELSE IF DigitAt(a, i) - DigitAt(b, i) - c < 0
         THEN SubFrom[a, b, i + 1, 1,
                      <<DigitAt(a, i) - DigitAt(b, i) - c + 10>> \o acc]
         ELSE SubFrom[a, b, i + 1, 0, <<DigitAt(a, i) - DigitAt(b, i) - c>> \o acc]

BigSub[a \in Digits, b \in Digits] == Norm[SubFrom[a, b, 1, 0, <<>>]]

\* a * k for a small natural k: digit i and up, given the carry c
MulFrom[a \in Digits, k \in Nat, i \in Nat, c \in Nat, acc \in Digits] ==
    IF i > Len(a)
    THEN IF c = 0 THEN acc ELSE Big[c] \o acc
    ELSE MulFrom[a, k, i + 1, (DigitAt(a, i) * k + c) \div 10,
                 <<(DigitAt(a, i) * k + c) % 10>> \o acc]

BigMul[a \in Digits, k \in Nat] == Norm[MulFrom[a, k, 1, 0, <<>>]]

\* The value of a digit tuple short enough for the machine's integers
SmallFrom[a \in Digits, i \in Nat, v \in Nat] ==
    IF i > Len(a) THEN v ELSE SmallFrom[a, i + 1, v * 10 + a[i]]

Small[a \in Digits] == SmallFrom[a, 1, 0]

\* How often b goes into r, and what is left: <<count, rest>>
TimesRem[r \in Digits, b \in Digits, n \in Nat] ==
    IF BigLess[r, b] THEN <<n, r>> ELSE TimesRem[BigSub[r, b], b, n + 1]

\* The quotient digits q and a step's <<count, rest>>: the new <<q, rest>>
DivPut[q \in Digits, tr \in Nat \X Digits] == <<q \o <<tr[1]>>, tr[2]>>

\* One step of long division by b > 0: the next digit d of the dividend is
\* brought down to the remainder of qr = <<quotient digits, remainder>>.
DivStep[qr \in Digits \X Digits, d \in Nat, b \in Digits] ==
    DivPut[qr[1], TimesRem[Norm[qr[2] \o <<d>>], b, 0]]

\* The steps for digits i..j of a.
DivRange[a \in Digits, b \in Digits, i \in Nat, j \in Nat, qr \in Digits \X Digits] ==
    IF i > j THEN qr ELSE DivRange[a, b, i + 1, j, DivStep[qr, a[i], b]]

\* divmod(a, b) for b > 0 by long division, eight digits of a at a time (which
\* keeps the recursion shallow): <<quotient, remainder>>.
DivFrom[a \in Digits, b \in Digits, i \in Nat, qr \in Digits \X Digits] ==
    IF i > Len(a)
    THEN <<Norm[qr[1]], Norm[qr[2]]>>
    ELSE DivFrom[a, b, i + 8, DivRange[a, b, i, Min(i + 7, Len(a)), qr]]

\* The same for a divisor b of at most 8 digits, held as an integer
ShortDivFrom[a \in Digits, b \in Nat, i \in Nat, q \in Digits, r \in Nat] ==
    IF i > Len(a)
    THEN <<Norm[q], Big[r]>>
    ELSE ShortDivFrom[a, b, i + 1, q \o <<(r * 10 + a[i]) \div b>>,
                      (r * 10 + a[i]) % b]

BigDivMod[a \in Digits, b \in Digits] ==
    IF Len(b) <= 8
    THEN ShortDivFrom[a, Small[b], 1, <<>>, 0]
    ELSE DivFrom[a, b, 1, <<<<>>, <<0>>>>]

\* A string int() accepts (the base-10 strings of the documented shape).
IsIntString[s \in STRING] ==
    /\ Len(s) > 0
    /\ \A i \in 1..Len(s) : IsDigitChar(SubSeq(s, i, i))

\* int(s)
ParseInt[s \in STRING] ==
    Norm[SubSeq([i \in 1..Len(s) |-> DigitOf(SubSeq(s, i, i))], 1, Len(s))]

\* str(n)
BigStr[a \in Digits] ==
    IF Len(a) = 0 THEN ""
    ELSE IF Len(a) = 1 THEN DigitChars[a[1] + 1]
    ELSE BigStr[SubSeq(a, 1, Len(a) \div 2)]
           \o BigStr[SubSeq(a, Len(a) \div 2 + 1, Len(a))]

(***************************************************************************)
(* decimal.Decimal under the default context: a sign, a coefficient and an *)
(* exponent, every operation rounded half-even to the context's precision. *)
(***************************************************************************)

\* decimal.getcontext().prec, the default the rule engine computes under
DecimalPrec == 28

Decimal == [sign : {0, 1}, int : Digits, exp : Int]

Dec(sign, int, exp) == [sign |-> sign, int |-> int, exp |-> exp]

\* Decimal(a - b) of two naturals
DecOfDiff[a \in Digits, b \in Digits] ==
    IF BigLess[a, b] THEN Dec(1, BigSub[b, a], 0) ELSE Dec(0, BigSub[a, b], 0)

\* The digits kept and the digits cut: kept, rounded half-even by what is cut.
RoundParts[kept \in Digits, rest \in Digits] ==
    IF \/ BigLess[<<5>> \o Zeros[Len(rest) - 1], rest]
       \/ /\ Norm[rest] = Norm[<<5>> \o Zeros[Len(rest) - 1]]
          /\ kept[Len(kept)] % 2 = 1
    THEN BigAdd[kept, <<1>>]
    ELSE Norm[kept]

\* The coefficient c cut to its first n >= 1 digits, rounded half-even.
RoundHalfEven[c \in Digits, n \in Nat] ==
    RoundParts[SubSeq(c, 1, n), SubSeq(c, n + 1, Len(c))]

\* The rounded coefficient r of k digits cut: one digit more is cut when the
\* rounding carried into a further digit.
DecRounded[sign \in {0, 1}, r \in Digits, exp \in Int] ==
    IF Len(r) > DecimalPrec
    THEN Dec(sign, SubSeq(r, 1, DecimalPrec), exp + 1)
    ELSE Dec(sign, r, exp)

\* Decimal._fix: round to the context's precision
DecFix[d \in Decimal] ==
    IF Len(d.int) <= DecimalPrec
    THEN d
    ELSE DecRounded[d.sign, RoundHalfEven[d.int, DecimalPrec],
                    d.exp + (Len(d.int) - DecimalPrec)]

\* The number of trailing zeros of a coefficient other than 0
TrailingZeros[c \in Digits] ==
    CHOOSE t \in 0..(Len(c) - 1) :
        /\ \A i \in 1..t : DigitAt(c, i) = 0
        /\ DigitAt(c, t + 1) # 0

\* The exact quotient q at exponent exp, n trailing zeros dropped
DecStrip[sign \in {0, 1}, q \in Digits, exp \in Int, n \in Nat] ==
    DecFix[Dec(sign, SubSeq(q, 1, Len(q) - n), exp + n)]

\* The result of a division from divmod's <<quotient, remainder>> at exponent
\* exp: an inexact quotient ending in 0 or 5 gets a sticky last digit, an
\* exact one moves towards the ideal exponent.
DecOfQuotient[sign \in {0, 1}, qr \in Digits \X Digits, exp \in Int, ideal \in Int] ==
    IF ~BigIsZero[qr[2]]
    THEN DecFix[Dec(sign,
                    IF qr[1][Len(qr[1])] % 5 = 0 THEN BigAdd[qr[1], <<1>>]
                                                 ELSE qr[1],
                    exp)]
    ELSE IF ideal > exp
         THEN DecStrip[sign, qr[1], exp, Min(TrailingZeros[qr[1]], ideal - exp)]
         ELSE DecFix[Dec(sign, qr[1], exp)]

\* The division with the coefficients shifted so that the quotient has
\* at least prec + 1 digits
DecDivShift[a \in Decimal, b \in Decimal, shift \in Int] ==
    DecOfQuotient[(a.sign + b.sign) % 2,
                  IF shift >= 0
                  THEN BigDivMod[Shift[a.int, shift], b.int]
                  ELSE BigDivMod[a.int, Shift[b.int, 0 - shift]],
                  a.exp - b.exp - shift,
                  a.exp - b.exp]

\* Decimal.__truediv__ for a divisor other than 0
DecDiv[a \in Decimal, b \in Decimal] ==
    IF BigIsZero[a.int]
    THEN Dec((a.sign + b.sign) % 2, <<0>>, a.exp - b.exp)
    ELSE DecDivShift[a, b, Len(b.int) - Len(a.int) + DecimalPrec + 1]

\* Decimal.__mul__ by a small natural
DecMul[a \in Decimal, k \in Nat] ==
    DecFix[Dec(a.sign, BigMul[a.int, k], a.exp)]

\* The sign of a coefficient with its sign bit: 0 for a zero
DecSign(c, sign) == IF BigIsZero[c] THEN 0 ELSE sign

\* a > b for the coefficients x and y of a and b at one exponent
GreaterAligned[x \in Digits, sa \in {0, 1}, y \in Digits, sb \in {0, 1}] ==
    IF DecSign(x, sa) # DecSign(y, sb) THEN DecSign(x, sa) = 0
    ELSE IF DecSign(x, sa) = 0 THEN BigLess[y, x] ELSE BigLess[x, y]

\* a > b for Decimals
DecGreater[a \in Decimal, b \in Decimal] ==
    GreaterAligned[Shift[a.int, a.exp - Min(a.exp, b.exp)], a.sign,
                   Shift[b.int, b.exp - Min(a.exp, b.exp)], b.sign]

\* The digits p of a number of hundredths (three digits at least) as "x.yy"
TwoPlaces[sign \in {0, 1}, p \in Digits] ==
    (IF sign = 1 THEN "-" ELSE "")
      \o BigStr[SubSeq(p, 1, Len(p) - 2)] \o "."
      \o BigStr[SubSeq(p, Len(p) - 1, Len(p))]

\* A number c of hundredths with its leading zeros
PadHundredths[c \in Digits] == IF Len(c) < 3 THEN Zeros[3 - Len(c)] \o c ELSE c

\* format(d, ".2f"): d rounded half-even to two places
DecFormat2f[d \in Decimal] ==
    TwoPlaces[d.sign,
        PadHundredths[
            IF d.exp >= -2
            THEN Shift[d.int, d.exp + 2]
            ELSE IF Len(d.int) + d.exp + 2 <= 0
                 THEN \* everything is cut: only a coefficient above one half
                      \* of the last place rounds up
                      IF Len(d.int) + d.exp + 2 = 0
                         /\ BigLess[<<5>> \o Zeros[Len(d.int) - 1], d.int]
                      THEN <<1>> ELSE <<0>>
                 ELSE RoundHalfEven[d.int, Len(d.int) + d.exp + 2]]]

(***************************************************************************)
(* validation_rules.py: the result record, the thresholds, the rule engine *)
(***************************************************************************)

\* ValidationResult(passed, category, message, severity, optimization_tip);
\* the tip is <<>> for None and <<s>> for a string s.
ValidationResult(passed, category, message, severity, optimization_tip) ==
    [passed |-> passed, category |-> category, message |-> message,
     severity |-> severity, optimization_tip |-> optimization_tip]

\* GasThresholds
eth_transfer == 21000

erc20_transfer == 65000

simple_swap == 150000

complex_swap == 300000

multi_hop_swap == 500000

\* SecurityRules.max_slippage_percent = Decimal("2.0")
max_slippage_percent == Dec(0, <<2, 0>>, -1)

\* SecurityRules.max_value_without_confirmation = 10**18
max_value_without_confirmation == Shift[<<1>>, 18]

\* SecurityRules.allowed_protocols, as __post_init__ sets it
allowed_protocols == <<"uniswap_v3", "sushiswap", "curve", "balancer", "1inch">>

\* EfficiencyRules
prefer_direct_paths == TRUE

max_hops == 3

\* dict.get(key, default)
Get(d, key, default) == IF key \in DOMAIN d THEN d[key] ELSE default

\* threshold_map.get(tx_type, self.gas_thresholds.complex_swap)
GasThreshold(tx_type) ==
    CASE tx_type = "eth_transfer"   -> eth_transfer
      [] tx_type = "erc20_transfer" -> erc20_transfer
      [] tx_type = "simple_swap"    -> simple_swap
      [] tx_type = "complex_swap"   -> complex_swap
      [] tx_type = "multi_hop_swap" -> multi_hop_swap
      [] OTHER                      -> complex_swap

\* The comparison with the boundary taken as exceeding too.
ReachesGasThreshold(gas_limit, threshold) == gas_limit * 2 >= threshold * 3

\* gas_limit > threshold * 1.5: Python compares the int with the float
\* exactly, and threshold * 1.5 is exact for these thresholds, so the test
\* is 2 * gas_limit > 3 * threshold.
ExceedsGasThreshold(gas_limit, threshold) == gas_limit * 2 > threshold * 3

validate_gas(tx_data, tx_type) ==
    LET gas_limit == Get(tx_data, "gas", 0)
        threshold == GasThreshold(tx_type)
    IN  IF ExceedsGasThreshold(gas_limit, threshold)
        THEN ValidationResult(FALSE, "gas",
                 "Gas limit " \o ToString(gas_limit) \o " exceeds threshold "
                     \o ToString(threshold) \o " by >50%",
                 "warning",
                 <<"Consider optimizing transaction path or splitting into smaller transactions. Target gas: "
                     \o ToString(threshold)>>)
        ELSE ValidationResult(TRUE, "gas",
                 "Gas limit " \o ToString(gas_limit) \o " is within acceptable range",
                 "info", <<>>)

\* Decimal(expected_output - min_output) / Decimal(expected_output) * 100
SlippagePercent(expected_output, min_output) ==
    DecMul[DecDiv[DecOfDiff[expected_output, min_output],
                  Dec(0, expected_output, 0)],
           100]

validate_slippage(expected_output, min_output) ==
    IF BigIsZero[expected_output]
    THEN ValidationResult(FALSE, "correctness", "Expected output is zero",
                          "critical", <<>>)
    ELSE LET slippage == SlippagePercent(expected_output, min_output)
         IN  IF DecGreater[slippage, max_slippage_percent]
             THEN ValidationResult(FALSE, "security",
                      "Slippage " \o DecFormat2f[slippage] \o "% exceeds maximum 2.0%",
                      "warning",
                      <<"Reduce transaction size or use a different liquidity source with better depth">>)
             ELSE ValidationResult(TRUE, "security",
                      "Slippage " \o DecFormat2f[slippage] \o "% is acceptable",
                      "info", <<>>)

\* The comparison with the threshold itself taken as exceeding too.
ReachesConfirmationThreshold(value) ==
    BigLeq[max_value_without_confirmation, value]

\* value > self.security_rules.max_value_without_confirmation
ExceedsConfirmationThreshold(value) ==
    BigLess[max_value_without_confirmation, value]

\* The check with the finding on a value above the threshold made critical
validate_value_as_critical(value, requires_confirmation) ==
    IF requires_confirmation /\ ExceedsConfirmationThreshold(value)
    THEN ValidationResult(FALSE, "security",
             "Transaction value " \o BigStr[value] \o " exceeds confirmation threshold",
             "critical",
             <<"Consider splitting into smaller transactions or implementing additional confirmation steps">>)
    ELSE ValidationResult(TRUE, "security", "Transaction value is within limits",
                          "info", <<>>)

validate_value(value, requires_confirmation) ==
    IF requires_confirmation /\ ExceedsConfirmationThreshold(value)
    THEN ValidationResult(FALSE, "security",
             "Transaction value " \o BigStr[value] \o " exceeds confirmation threshold",
             "warning",
             <<"Consider splitting into smaller transactions or implementing additional confirmation steps">>)
    ELSE ValidationResult(TRUE, "security", "Transaction value is within limits",
                          "info", <<>>)

\* ", ".join(parts)
RECURSIVE Join(_)
Join(parts) ==
    IF Len(parts) = 0 THEN ""
    ELSE IF Len(parts) = 1 THEN parts[1]
    ELSE parts[1] \o ", " \o Join(Tail(parts))

\* The membership test with the letters' case ignored.
IsAllowedProtocolAnyCase(protocol) ==
    \E i \in 1..Len(allowed_protocols) :
        Lower[allowed_protocols[i]] = Lower[protocol]

\* protocol in self.security_rules.allowed_protocols
IsAllowedProtocol(protocol) ==
    \E i \in 1..Len(allowed_protocols) : allowed_protocols[i] = protocol

validate_protocol(protocol) ==
    IF ~IsAllowedProtocol(protocol)
    THEN ValidationResult(FALSE, "security",
             "Protocol " \o protocol \o " is not in allowed list",
             "critical",
             <<"Use one of the allowed protocols: " \o Join(allowed_protocols)>>)
    ELSE ValidationResult(TRUE, "security",
             "Protocol " \o protocol \o " is allowed", "info", <<>>)

\* The two checks in the other order: the direct-path check first.
validate_path_direct_first(path, direct_available) ==
    LET hop_count == Len(path) - 1
    IN  IF direct_available /\ hop_count > 1 /\ prefer_direct_paths
        THEN ValidationResult(FALSE, "efficiency",
                 "Using " \o ToString(hop_count)
                     \o "-hop path when direct path is available",
                 "warning",
                 <<"Use the direct trading pair for better gas efficiency">>)
        ELSE IF hop_count > max_hops
        THEN ValidationResult(FALSE, "efficiency",
                 "Path has " \o ToString(hop_count) \o " hops, exceeds maximum "
                     \o ToString(max_hops),
                 "warning",
                 <<"Look for more direct routes or split the trade">>)
        ELSE ValidationResult(TRUE, "efficiency",
                 "Path with " \o ToString(hop_count) \o " hop(s) is acceptable",
                 "info", <<>>)

validate_path_efficiency(path, direct_available) ==
    LET hop_count == Len(path) - 1
    IN  IF hop_count > max_hops
        THEN ValidationResult(FALSE, "efficiency",
                 "Path has " \o ToString(hop_count) \o " hops, exceeds maximum "
                     \o ToString(max_hops),
                 "warning",
                 <<"Look for more direct routes or split the trade">>)
        ELSE IF direct_available /\ hop_count > 1 /\ prefer_direct_paths
        THEN ValidationResult(FALSE, "efficiency",
                 "Using " \o ToString(hop_count) \o "-hop path when direct path is available",
                 "warning",
                 <<"Use the direct trading pair for better gas efficiency">>)
        ELSE ValidationResult(TRUE, "efficiency",
                 "Path with " \o ToString(hop_count) \o " hop(s) is acceptable",
                 "info", <<>>)

(***************************************************************************)
(* evaluator.py: TransactionEvaluator.                                     *)
(*                                                                         *)
(* A call either returns or raises: Return(..) and Raise(..) are the two   *)
(* outcomes.  A value that may be an int or a str (transaction["value"])   *)
(* is PyInt(digits) or PyStr(string).                                      *)
(***************************************************************************)

PyInt(n) == [int |-> n]

PyStr(s) == [str |-> s]

\* An optional list that is given
PyList(l) == [list |-> l]

\* None
None == [none |-> TRUE]

\* {}
EmptyDict == [k \in {} |-> 0]

\* bool(d) of an optional dict
Truthy(d) == d # None /\ DOMAIN d # {}

Raise(error, message) == [raised |-> TRUE, error |-> error, message |-> message]

\* int(x) raises ValueError for a string that is no base-10 literal
IntRaises(x) == "str" \in DOMAIN x /\ ~IsIntString[x.str]

\* int(x)
ToInt(x) == IF "int" \in DOMAIN x THEN x.int ELSE ParseInt[x.str]

ValidationResults ==
    [passed : BOOLEAN, category : STRING, message : STRING, severity : STRING,
     optimization_tip : Seq(STRING)]

\* The objective consulted before the selector
_determine_transaction_type_by_objective_first(transaction, objective) ==
    LET data == Get(transaction, "data", "0x")
    IN  IF data = "0x" \/ Len(data) <= 10
        THEN "eth_transfer"
        ELSE IF Contains[Lower[Get(objective, "type", "")], "swap"]
        THEN IF \/ Contains[Lower[Get(objective, "type", "")], "multi"]
                \/ Contains[Lower[Get(objective, "type", "")], "triangular"]
             THEN "multi_hop_swap"
             ELSE IF Contains[Lower[Get(objective, "type", "")], "complex"]
             THEN "complex_swap"
             ELSE "simple_swap"
        ELSE IF Prefix[data, 10] = "0xa9059cbb"
        THEN "erc20_transfer"
        ELSE "complex_swap"

_determine_transaction_type(transaction, objective) ==
    LET data == Get(transaction, "data", "0x")
    IN  IF data = "0x" \/ Len(data) <= 10
        THEN "eth_transfer"
        ELSE IF Prefix[data, 10] = "0xa9059cbb"
        THEN "erc20_transfer"
        ELSE IF Contains[Lower[Get(objective, "type", "")], "swap"]
        THEN IF \/ Contains[Lower[Get(objective, "type", "")], "multi"]
                \/ Contains[Lower[Get(objective, "type", "")], "triangular"]
             THEN "multi_hop_swap"
             ELSE IF Contains[Lower[Get(objective, "type", "")], "complex"]
             THEN "complex_swap"
             ELSE "simple_swap"
        ELSE "complex_swap"

_validate_objective_alignment(transaction, objective) ==
    (IF /\ "target_address" \in DOMAIN objective
        /\ Lower[Get(transaction, "to", "")] # Lower[objective.target_address]
     THEN <<ValidationResult(FALSE, "correctness",
                "Transaction target doesn't match objective target",
                "critical",
                <<"Ensure transaction is sent to the correct contract">>)>>
     ELSE <<>>)
    \o
    (IF "expected_output" \in DOMAIN objective /\ "min_output" \in DOMAIN objective
     THEN <<validate_slippage(objective.expected_output, objective.min_output)>>
     ELSE <<>>)

Abs(n) == IF n < 0 THEN 0 - n ELSE n

\* abs(actual_delta - expected_delta) / abs(expected_delta) > 0.02 for an
\* expected_delta other than 0: for deltas of this size the float quotient is
\* above the float 0.02 exactly when the exact quotient is above 1/50.
DeviatesFrom(actual_delta, expected_delta) ==
    50 * Abs(actual_delta - expected_delta) > Abs(expected_delta)

\* The loop over expected_changes.items(), a sequence of <<asset, delta>> in
\* the dict's order: the results appended.
AssetChangeResults(changes, expected_changes) ==
    LET Loop[i \in Nat, results \in Seq(ValidationResults)] ==
            IF i > Len(expected_changes)
            THEN results
            ELSE Loop[i + 1,
                      IF DeviatesFrom(Get(changes, expected_changes[i][1], 0),
                                      expected_changes[i][2])
                      THEN Append(results,
                               ValidationResult(FALSE, "correctness",
                                   "Asset " \o expected_changes[i][1] \o " change "
                                     \o ToString(Get(changes, expected_changes[i][1], 0))
                                     \o " differs from expected "
                                     \o ToString(expected_changes[i][2]),
                                   "warning",
                                   <<"Adjust transaction parameters to achieve desired asset changes">>))
                      ELSE results]
    IN  Loop[1, <<>>]

\* The division by abs(expected_delta) raises ZeroDivisionError
_validate_simulation_raises(simulation, objective) ==
    /\ Get(simulation, "success", FALSE)
    /\ "asset_changes" \in DOMAIN simulation
    /\ \E i \in 1..Len(Get(objective, "expected_changes", <<>>)) :
          objective.expected_changes[i][2] = 0

_validate_simulation(simulation, objective) ==
    IF ~Get(simulation, "success", FALSE)
    THEN <<ValidationResult(FALSE, "correctness",
               "Transaction simulation failed: "
                   \o Get(simulation, "error", "Unknown error"),
               "critical",
               <<"Review transaction parameters and ensure sufficient balances">>)>>
    ELSE IF "asset_changes" \in DOMAIN simulation
    THEN AssetChangeResults(simulation.asset_changes,
                            Get(objective, "expected_changes", <<>>))
    ELSE <<>>

_is_mev_vulnerable(transaction, objective) ==
    /\ Contains[Lower[Get(objective, "type", "")], "swap"]
    /\ BigLess[Shift[<<1>>, 18], ToInt(Get(transaction, "value", PyInt(<<0>>)))]
    /\ ~Get(objective, "mev_protection", FALSE)

_validate_security(transaction, objective) ==
    (IF _is_mev_vulnerable(transaction, objective)
     THEN <<ValidationResult(FALSE, "security",
                "Transaction is vulnerable to MEV attacks", "warning",
                <<"Consider using Flashbots or implementing commit-reveal pattern">>)>>
     ELSE <<>>)
    \o
    (IF "protocol" \in DOMAIN objective
     THEN <<validate_protocol(objective.protocol)>>
     ELSE <<>>)

\* Validity with every failed result counted, whatever its severity.
NoFailure(results) == \A i \in 1..Len(results) : results[i].passed

\* len(critical_failures) == 0
NoCriticalFailure(results) ==
    ~\E i \in 1..Len(results) :
        ~results[i].passed /\ results[i].severity = "critical"

\* The results list as the five steps extend it
EvaluationResults(transaction, objective, simulation_result) ==
    (IF "gas" \in DOMAIN transaction
     THEN <<validate_gas(transaction,
                         _determine_transaction_type(transaction, objective))>>
     ELSE <<>>)
    \o
    (IF ~BigIsZero[ToInt(Get(transaction, "value", PyInt(<<0>>)))]
     THEN <<validate_value(ToInt(Get(transaction, "value", PyInt(<<0>>))), TRUE)>>
     ELSE <<>>)
    \o _validate_objective_alignment(transaction, objective)
    \o (IF Truthy(simulation_result)
        THEN _validate_simulation(simulation_result, objective)
        ELSE <<>>)
    \o _validate_security(transaction, objective)

Evaluations ==
    [raised : {FALSE}, is_valid : BOOLEAN, results : Seq(ValidationResults)]

\* (is_valid, results)
EvaluationOf[results \in Seq(ValidationResults)] ==
    [raised |-> FALSE, is_valid |-> NoCriticalFailure(results), results |-> results]

evaluate_transaction(transaction, objective, simulation_result) ==
    IF IntRaises(Get(transaction, "value", PyInt(<<0>>)))
    THEN Raise("ValueError",
               "invalid literal for int() with base 10: '"
                   \o transaction.value.str \o "'")
    ELSE IF /\ Truthy(simulation_result)
            /\ _validate_simulation_raises(simulation_result, objective)
    THEN Raise("ZeroDivisionError", "division by zero")
    ELSE EvaluationOf[EvaluationResults(transaction, objective, simulation_result)]

BatchEntries ==
    [transaction_index : Nat, valid : BOOLEAN, results : Seq(ValidationResults)]

\* bool(result.optimization_tip): neither None nor ""
HasTip(result) ==
    result.optimization_tip # <<>> /\ result.optimization_tip[1] # ""

InSeq(x, s) == \E i \in 1..Len(s) : s[i] = x

\* The inner loop with every failed result's tip appended, seen before or not
TipsOfResultsWithRepeats(tips0, results) ==
    LET Loop[i \in Nat, tips \in Seq(STRING)] ==
            IF i > Len(results)
            THEN tips
            ELSE Loop[i + 1,
                      IF ~results[i].passed /\ HasTip(results[i])
                      THEN Append(tips, results[i].optimization_tip[1])
                      ELSE tips]
    IN  Loop[1, tips0]

\* The inner loop of _generate_optimization_tips over one transaction's results
TipsOfResults(tips0, results) ==
    LET Loop[i \in Nat, tips \in Seq(STRING)] ==
            IF i > Len(results)
            THEN tips
            ELSE Loop[i + 1,
                      IF /\ ~results[i].passed
                         /\ HasTip(results[i])
                         /\ ~InSeq(results[i].optimization_tip[1], tips)
                      THEN Append(tips, results[i].optimization_tip[1])
                      ELSE tips]
    IN  Loop[1, tips0]

\* len(failed_txs)
FailedCount(batch_results) ==
    Cardinality({i \in 1..Len(batch_results) : ~batch_results[i].valid})

\* The batch-level tip is appended when more than one transaction failed
WithBatchTip[tips \in Seq(STRING), failed \in Nat] ==
    IF failed > 1
    THEN Append(tips, "Consider breaking this into smaller, simpler transactions")
    ELSE tips

_generate_optimization_tips(batch_results) ==
    LET Loop[i \in Nat, tips \in Seq(STRING)] ==
            IF i > Len(batch_results)
            THEN tips
            ELSE Loop[i + 1, TipsOfResults(tips, batch_results[i].results)]
    IN  WithBatchTip[Loop[1, <<>>], FailedCount(batch_results)]

\* The summary for the counts of valid and of all transactions
SummaryOf[valid \in Nat, total \in Nat] ==
    IF valid = total
    THEN "All " \o ToString(total) \o " transactions passed validation"
    ELSE IF valid = 0
    THEN "All " \o ToString(total) \o " transactions failed validation"
    ELSE ToString(valid) \o " of " \o ToString(total)
           \o " transactions passed validation"

\* The summary with the test for no valid transaction made first.
_generate_summary_failed_first(batch_results) ==
    IF Len(batch_results) - FailedCount(batch_results) = 0
    THEN "All " \o ToString(Len(batch_results)) \o " transactions failed validation"
    ELSE SummaryOf[Len(batch_results) - FailedCount(batch_results),
                   Len(batch_results)]

_generate_summary(batch_results) ==
    SummaryOf[Len(batch_results) - FailedCount(batch_results), Len(batch_results)]

\* The dict evaluate_transaction_batch returns
BatchReport[batch_results \in Seq(BatchEntries)] ==
    [raised |-> FALSE,
     all_valid |-> \A i \in 1..Len(batch_results) : batch_results[i].valid,
     transaction_results |-> batch_results,
     optimization_tips |-> _generate_optimization_tips(batch_results),
     summary |-> _generate_summary(batch_results)]

\* One iteration's entry of batch_results
BatchEntryOf[i \in Nat, evaluation \in Evaluations] ==
    [transaction_index |-> i - 1, valid |-> evaluation.is_valid,
     results |-> evaluation.results]

\* simulation_results, or [{} for _ in range(len(transactions))] for None
SimulationList(transactions, simulation_results) ==
    IF simulation_results = None
    THEN SubSeq([i \in 1..Len(transactions) |-> EmptyDict], 1, Len(transactions))
    ELSE simulation_results.list

evaluate_transaction_batch(transactions, objective, simulation_results) ==
    LET sims == SimulationList(transactions, simulation_results)
        Loop[i \in Nat, batch_results \in Seq(BatchEntries)] ==
            IF i > Len(transactions)
            THEN BatchReport[batch_results]
            ELSE IF i > Len(sims)
            THEN Raise("IndexError", "list index out of range")
            ELSE IF evaluate_transaction(transactions[i], objective, sims[i]).raised
            THEN evaluate_transaction(transactions[i], objective, sims[i])
            ELSE Loop[i + 1,
                      Append(batch_results,
                             BatchEntryOf[i, evaluate_transaction(transactions[i],
                                                 objective, sims[i])])]
    IN  Loop[1, <<>>]

(***************************************************************************)
(* Python floats, as far as the subagents compute with them: a float is    *)
(* [m, s] for the value m / 2^s (m of at most 53 bits, s maybe negative).  *)
(***************************************************************************)

\* a * 2^n
Times2[a \in Digits, n \in Nat] ==
    IF n <= 26 THEN BigMul[a, 2 ^ n] ELSE Times2[BigMul[a, 2 ^ 26], n - 26]

\* divmod's <<q, r>> for a divisor b as the quotient rounded half-even
RoundQuotient[qr \in Digits \X Digits, b \in Digits] ==
    IF \/ BigLess[b, BigMul[qr[2], 2]]
       \/ BigMul[qr[2], 2] = Norm[b] /\ qr[1][Len(qr[1])] % 2 = 1
    THEN BigAdd[qr[1], <<1>>]
    ELSE qr[1]

\* a / b as a float, for a, b > 0: a is doubled (a stands for a * 2^s) or b
\* is (c is b * 2^52) until 2^52 <= a / b < 2^53, by 26 or 5 doublings at
\* once where that many are due
FloatScaled[a \in Digits, b \in Digits, c \in Digits, s \in Int] ==
    IF BigLess[BigMul[a, 2 ^ 26], c]
    THEN FloatScaled[BigMul[a, 2 ^ 26], b, c, s + 26]
    ELSE IF BigLess[BigMul[a, 32], c]
    THEN FloatScaled[BigMul[a, 32], b, c, s + 5]
    ELSE IF BigLess[a, c]
    THEN FloatScaled[BigMul[a, 2], b, c, s + 1]
    ELSE IF BigLeq[BigMul[c, 2 ^ 26], a]
    THEN FloatScaled[a, BigMul[b, 2 ^ 26], BigMul[c, 2 ^ 26], s - 26]
    ELSE IF BigLeq[BigMul[c, 32], a]
    THEN FloatScaled[a, BigMul[b, 32], BigMul[c, 32], s - 5]
    ELSE IF BigLeq[BigMul[c, 2], a]
    THEN FloatScaled[a, BigMul[b, 2], BigMul[c, 2], s - 1]
    ELSE [m |-> RoundQuotient[BigDivMod[a, b], b], s |-> s]

\* The float nearest to a / b (b > 0): int / int, and float(a) for b = 1
FloatOfRatio[a \in Digits, b \in Digits] ==
    IF BigIsZero[a] THEN [m |-> <<0>>, s |-> 0]
    ELSE FloatScaled[Norm[a], Norm[b], Times2[Norm[b], 52], 0]

Floats == [m : Digits, s : Int]

\* int(f) of a float f >= 0
FloatToInt[f \in Floats] ==
    IF f.s <= 0 THEN Times2[f.m, 0 - f.s]
    ELSE BigDivMod[f.m, Times2[<<1>>, f.s]][1]

\* format(f, ".3f") from the thousandths of f, rounded
ThreePlaces[t \in Digits] ==
    BigStr[BigDivMod[t, Big[1000]][1]] \o "."
      \o BigStr[Zeros[3 - Len(BigDivMod[t, Big[1000]][2])]
                  \o BigDivMod[t, Big[1000]][2]]

\* format(f, ".3f") of a float f >= 0: its exact value rounded half-even
FloatFormat3f[f \in Floats] ==
    IF f.s <= 0
    THEN ThreePlaces[BigMul[Times2[f.m, 0 - f.s], 1000]]
    ELSE ThreePlaces[RoundQuotient[BigDivMod[BigMul[f.m, 1000], Times2[<<1>>, f.s]],
                                  Times2[<<1>>, f.s]]]

(***************************************************************************)
(* subagents.py: the four subagents.  analyze returns AgentReturn(results) *)
(* or raises.                                                              *)
(***************************************************************************)

AgentReturn(results) == [raised |-> FALSE, results |-> results]

\* The ValueError of int(x)
IntError(x) ==
    Raise("ValueError", "invalid literal for int() with base 10: '" \o x.str \o "'")

HexChars ==
    {"0", "1", "2", "3", "4", "5", "6", "7", "8", "9",
     "a", "b", "c", "d", "e", "f", "A", "B", "C", "D", "E", "F"}

IsHexChar(c) == c \in HexChars

\* data[2:] if data.startswith("0x") else data
StripHexPrefix[data \in STRING] ==
    IF StartsWith[data, "0x"] THEN Suffix[data, 2] ELSE data

\* bytes.fromhex(hex) raises (for a string without whitespace): a character is
\* no hex digit, or the last byte has one digit only
FromHexRaises[hex \in STRING] ==
    \/ Len(hex) % 2 = 1
    \/ \E i \in 1..Len(hex) : ~IsHexChar(SubSeq(hex, i, i))

\* The position the ValueError names: the first character that is no hex
\* digit, or the end of the string
FromHexErrorPosition[hex \in STRING] ==
    IF \E i \in 1..Len(hex) : ~IsHexChar(SubSeq(hex, i, i))
    THEN (CHOOSE i \in 1..Len(hex) :
              /\ ~IsHexChar(SubSeq(hex, i, i))
              /\ \A j \in 1..(i - 1) : IsHexChar(SubSeq(hex, j, j))) - 1
    ELSE Len(hex)

FromHexError(hex) ==
    Raise("ValueError",
          "non-hexadecimal number found in fromhex() arg at position "
              \o ToString(FromHexErrorPosition[hex]))

\* The loop over the bytes of well-formed hex: 4 gas for a zero byte, 16 for
\* another (the string is split at a byte boundary; the sum is the loop's)
CalldataBytesGas[hex \in STRING] ==
    IF Len(hex) = 0 THEN 0
    ELSE IF Len(hex) = 2 THEN (IF hex = "00" THEN 4 ELSE 16)
    ELSE CalldataBytesGas[SubSeq(hex, 1, 2 * (Len(hex) \div 4))]
           + CalldataBytesGas[SubSeq(hex, 2 * (Len(hex) \div 4) + 1, Len(hex))]

_calculate_calldata_gas(data) == CalldataBytesGas[StripHexPrefix[data]]

\* storage_heavy_selectors.get(selector), <<>> for a selector not in it
StorageHeavyFunction(selector) ==
    CASE selector = "0x095ea7b3" -> <<"approve">>
      [] selector = "0x23b872dd" -> <<"transferFrom">>
      [] selector = "0x40c10f19" -> <<"mint">>
      [] OTHER -> <<>>

_analyze_storage_access(transaction, context) ==
    LET data == Get(transaction, "data", "0x")
    IN  IF Len(data) >= 10 /\ StorageHeavyFunction(Prefix[data, 10]) # <<>>
        THEN <<ValidationResult(TRUE, "gas",
                   "Function " \o StorageHeavyFunction(Prefix[data, 10])[1]
                       \o " typically involves multiple storage operations",
                   "info",
                   <<"Consider batching multiple calls if possible">>)>>
        ELSE <<>>

\* Both EIP-1559 fields are in the transaction
HasFees(transaction) ==
    "maxFeePerGas" \in DOMAIN transaction
      /\ "maxPriorityFeePerGas" \in DOMAIN transaction

\* context.get("current_base_fee", 30e9)
BaseFee(context) == Get(context, "current_base_fee", Shift[<<3>>, 10])

\* The two checks on the fees; base_fee * 1.25 and base_fee * 1.5 are exact
\* for a base fee below 2^50, so max_fee < base_fee * 1.25 is
\* 4 * max_fee < 5 * base_fee and int(base_fee * 1.5) is 3 * base_fee // 2.
FeeResults[max_fee \in Digits, priority_fee \in Digits, base_fee \in Digits] ==
    (IF BigLess[BigMul[max_fee, 4], BigMul[base_fee, 5]]
     THEN <<ValidationResult(FALSE, "gas",
                "Max fee might be too low for timely inclusion", "warning",
                <<"Consider setting maxFeePerGas to at least "
                    \o BigStr[BigDivMod[BigMul[base_fee, 3], <<2>>][1]] \o " wei">>)>>
     ELSE <<>>)
    \o
    (IF BigLess[priority_fee, Shift[<<1>>, 9]]
     THEN <<ValidationResult(FALSE, "gas",
                "Priority fee too low, transaction might be slow", "warning",
                <<"Set priority fee to at least 2 gwei for reasonable inclusion time">>)>>
     ELSE <<>>)

_analyze_gas_price_strategy(transaction, context) ==
    IF HasFees(transaction)
    THEN FeeResults[ToInt(transaction.maxFeePerGas),
                    ToInt(transaction.maxPriorityFeePerGas), BaseFee(context)]
    ELSE <<>>

\* The finding on the calldata's cost
CalldataResults[calldata_gas \in Nat] ==
    IF calldata_gas > 50000
    THEN <<ValidationResult(FALSE, "gas",
               "Calldata alone costs " \o ToString(calldata_gas) \o " gas",
               "warning",
               <<"Consider using more efficient encoding or calldata compression">>)>>
    ELSE <<>>

\* GasAnalyzer.analyze
GasAnalyzer_analyze(transaction, objective, context) ==
    LET data == Get(transaction, "data", "0x")
    IN  IF Len(data) > 10 /\ FromHexRaises[StripHexPrefix[data]]
        THEN FromHexError(StripHexPrefix[data])
        ELSE IF HasFees(transaction) /\ IntRaises(transaction.maxFeePerGas)
        THEN IntError(transaction.maxFeePerGas)
        ELSE IF HasFees(transaction) /\ IntRaises(transaction.maxPriorityFeePerGas)
        THEN IntError(transaction.maxPriorityFeePerGas)
        ELSE AgentReturn(
                 (IF Len(data) > 10
                  THEN CalldataResults[_calculate_calldata_gas(data)]
                         \o _analyze_storage_access(transaction, context)
                  ELSE <<>>)
                 \o _analyze_gas_price_strategy(transaction, context))

\* The value as the security checks read it
TxValue(transaction) == Get(transaction, "value", PyInt(<<0>>))

_check_reentrancy_risk(transaction) ==
    IF /\ ~BigIsZero[ToInt(TxValue(transaction))]
       /\ Len(Get(transaction, "data", "0x")) > 10
    THEN <<ValidationResult(FALSE, "security",
               "Transaction sends ETH while executing complex logic", "warning",
               <<"Ensure the target contract follows checks-effects-interactions pattern">>)>>
    ELSE <<>>

\* The front-running check with 5 ETH itself counted as large
_check_frontrunning_risk_from_five_eth(transaction, objective) ==
    IF /\ Contains[Lower[Get(objective, "type", "")], "swap"]
       /\ BigLeq[Shift[<<5>>, 18], ToInt(TxValue(transaction))]
       /\ ~Get(objective, "mev_protection", FALSE)
    THEN <<ValidationResult(FALSE, "security",
               "Large swap without MEV protection is vulnerable to sandwich attacks",
               "critical",
               <<"Use Flashbots RPC or implement commit-reveal pattern">>)>>
    ELSE <<>>

_check_frontrunning_risk(transaction, objective) ==
    IF /\ Contains[Lower[Get(objective, "type", "")], "swap"]
       /\ BigLess[Shift[<<5>>, 18], ToInt(TxValue(transaction))]
       /\ ~Get(objective, "mev_protection", FALSE)
    THEN <<ValidationResult(FALSE, "security",
               "Large swap without MEV protection is vulnerable to sandwich attacks",
               "critical",
               <<"Use Flashbots RPC or implement commit-reveal pattern">>)>>
    ELSE <<>>

\* privileged_selectors.get(selector), <<>> for a selector not in it
PrivilegedFunction(selector) ==
    CASE selector = "0x715018a6" -> <<"renounceOwnership">>
      [] selector = "0xf2fde38b" -> <<"transferOwnership">>
      [] selector = "0x3ccfd60b" -> <<"withdraw">>
      [] selector = "0x853828b6" -> <<"withdrawAll">>
      [] OTHER -> <<>>

_check_access_control(transaction, context) ==
    LET data == Get(transaction, "data", "0x")
    IN  IF Len(data) >= 10 /\ PrivilegedFunction(Prefix[data, 10]) # <<>>
        THEN <<ValidationResult(FALSE, "security",
                   "Calling privileged function "
                       \o PrivilegedFunction(Prefix[data, 10])[1],
                   "critical",
                   <<"Ensure you have the required permissions before calling">>)>>
        ELSE <<>>

_check_contract_safety(transaction) ==
    IF /\ Lower[Get(transaction, "to", "")] # ""
       /\ ~StartsWith[Lower[Get(transaction, "to", "")], "0x00000"]
    THEN <<ValidationResult(TRUE, "security",
               "Ensure target contract is verified and audited", "info", <<>>)>>
    ELSE <<>>

\* SecurityValidator.analyze
SecurityValidator_analyze(transaction, objective, context) ==
    IF IntRaises(TxValue(transaction))
    THEN IntError(TxValue(transaction))
    ELSE AgentReturn(_check_reentrancy_risk(transaction)
                       \o _check_frontrunning_risk(transaction, objective)
                       \o _check_access_control(transaction, context)
                       \o _check_contract_safety(transaction))

\* int(max_extractable * 0.5) for the size of max_extractable: the int becomes
\* a float, is halved, and is cut to an int
HalfAsInt[max_extractable \in Digits] ==
    FloatToInt[[m |-> FloatOfRatio[max_extractable, <<1>>].m,
                s |-> FloatOfRatio[max_extractable, <<1>>].s + 1]]

SignedInts == [neg : BOOLEAN, abs : Digits]

\* A signed int
Signed(neg, abs) == [neg |-> neg /\ ~BigIsZero[abs], abs |-> abs]

_calculate_mev_profit(transaction, objective) ==
    IF /\ Contains[Lower[Get(objective, "type", "")], "swap"]
       /\ ~BigIsZero[Get(objective, "expected_output", <<0>>)]
       /\ ~BigIsZero[Get(objective, "min_output", <<0>>)]
    THEN IF BigLess[objective.expected_output, objective.min_output]
         THEN Signed(TRUE, HalfAsInt[BigSub[objective.min_output,
                                            objective.expected_output]])
         ELSE Signed(FALSE, HalfAsInt[BigSub[objective.expected_output,
                                             objective.min_output]])
    ELSE Signed(FALSE, <<0>>)

\* The vectors of _identify_attack_vectors as <<type, mitigation>>
_identify_attack_vectors(transaction, objective) ==
    (IF /\ Contains[Lower[Get(objective, "type", "")], "swap"]
        /\ ~Get(objective, "mev_protection", FALSE)
     THEN <<<<"sandwich", "Use MEV-protected RPC or split into smaller trades">>>>
     ELSE <<>>)
    \o
    (IF Contains[Lower[Get(objective, "type", "")], "liquidation"]
     THEN <<<<"liquidation front-running", "Use flashloan-based atomic liquidation">>>>
     ELSE <<>>)

\* The finding on the estimated profit: mev_profit > 0.1 * 10**18, the float 1e17
ProfitResults[mev_profit \in SignedInts] ==
    IF ~mev_profit.neg /\ BigLess[Shift[<<1>>, 17], mev_profit.abs]
    THEN <<ValidationResult(FALSE, "security",
               "Transaction could be targeted by MEV bots (potential profit: "
                   \o FloatFormat3f[FloatOfRatio[mev_profit.abs, Shift[<<1>>, 18]]]
                   \o " ETH)",
               "critical",
               <<"Use private mempool or implement MEV protection strategies">>)>>
    ELSE <<>>

\* One finding per vector
VectorResults[vectors \in Seq(STRING \X STRING)] ==
    SubSeq([i \in 1..Len(vectors) |->
               ValidationResult(FALSE, "security",
                   "Vulnerable to " \o vectors[i][1] \o " attack", "warning",
                   <<vectors[i][2]>>)],
           1, Len(vectors))

\* MEVInspector.analyze
MEVInspector_analyze(transaction, objective, context) ==
    AgentReturn(ProfitResults[_calculate_mev_profit(transaction, objective)]
                  \o VectorResults[_identify_attack_vectors(transaction, objective)])

\* One reminder per entry of expected_changes, <<token, expected_delta>>
_validate_balance_changes(transaction, objective, context) ==
    LET expected_changes == Get(objective, "expected_changes", <<>>)
    IN  SubSeq([i \in 1..Len(expected_changes) |->
                   ValidationResult(TRUE, "correctness",
                       "Expecting " \o expected_changes[i][1]
                           \o " balance change of "
                           \o ToString(expected_changes[i][2]),
                       "info", <<>>)],
               1, Len(expected_changes))

_validate_approvals(transaction, objective) ==
    LET data == Get(transaction, "data", "0x")
    IN  IF Len(data) >= 10 /\ Prefix[data, 10] = "0x23b872dd"
        THEN <<ValidationResult(TRUE, "correctness",
                   "Ensure token approval is set before transferFrom", "info",
                   <<"Check allowance before attempting transfer">>)>>
        ELSE <<>>

_validate_state_changes(transaction, objective, context) ==
    IF "expected_state" \in DOMAIN objective
    THEN <<ValidationResult(TRUE, "correctness",
               "Transaction should be simulated to verify state changes", "info",
               <<"Use transaction simulation to confirm expected state">>)>>
    ELSE <<>>

\* StateValidator.analyze
StateValidator_analyze(transaction, objective, context) ==
    AgentReturn(_validate_balance_changes(transaction, objective, context)
                  \o _validate_approvals(transaction, objective)
                  \o _validate_state_changes(transaction, objective, context))

(***************************************************************************)
(* subagents.py: SubAgentCoordinator.                                      *)
(***************************************************************************)

\* d[key] = value
Put(d, key, value) ==
    [k \in DOMAIN d \cup {key} |-> IF k = key THEN value ELSE d[k]]

\* list(self.subagents.keys())
subagents == <<"gas", "security", "mev", "state">>

\* agent.analyze(transaction, objective, context) of the registered agent
Analyze(agent_name, transaction, objective, context) ==
    CASE agent_name = "gas" -> GasAnalyzer_analyze(transaction, objective, context)
      [] agent_name = "security" ->
             SecurityValidator_analyze(transaction, objective, context)
      [] agent_name = "mev" -> MEVInspector_analyze(transaction, objective, context)
      [] agent_name = "state" ->
             StateValidator_analyze(transaction, objective, context)

\* What a task's coroutine ends with: it reads the objects it was given when
\* it runs; faults names the agents whose analyze raises for a reason outside
\* these inputs, with the error's text.
TaskOutcome(agent_name, objects, faults) ==
    IF agent_name \in DOMAIN faults
    THEN Raise("RuntimeError", faults[agent_name])
    ELSE Analyze(agent_name, objects.transaction, objects.objective,
                 objects.context)

\* The objects after an analyze that, for the mev agent, marks the objective
\* as protected.
ObjectsAfterMarking(agent_name, objects) ==
    IF agent_name = "mev"
    THEN [objects EXCEPT !.objective = Put(objects.objective, "mev_protection", TRUE)]
    ELSE objects

\* The objects the tasks share after agent_name's analyze has run: no agent
\* assigns to the transaction, the objective or the context.
ObjectsAfter(agent_name, objects) == objects

\* The names of the tasks created, in order
TaskNames(agents) ==
    SelectSeq(IF agents = None THEN subagents ELSE agents.list,
              LAMBDA a : InSeq(a, subagents))

\* The loop's body with the results assigned anew where an entry is to be set
\* for a task that raised.
AfterAwaitAssigningAnew(results, agent_name, outcome) ==
    IF outcome.raised
    THEN Put(EmptyDict, agent_name,
             <<ValidationResult(FALSE, "error",
                   "Subagent " \o agent_name \o " failed: " \o outcome.message,
                   "warning", <<>>)>>)
    ELSE Put(results, agent_name, outcome.results)

\* The body of the collecting loop for one awaited task: results afterwards
AfterAwait(results, agent_name, outcome) ==
    IF outcome.raised
    THEN Put(results, agent_name,
             <<ValidationResult(FALSE, "error",
                   "Subagent " \o agent_name \o " failed: " \o outcome.message,
                   "warning", <<>>)>>)
    ELSE Put(results, agent_name, outcome.results)

\* An await that goes on at once, whether the task is done or not.
ReadyAtOnce(task) == TRUE

\* await task goes on once the task is done
Ready(task) == task.done

\* The collecting loop from the task at index i on, as far as it gets without
\* suspending: awaiting a task that is done does not suspend.
RECURSIVE CollectFrom(_, _, _)
CollectFrom(i, created, results) ==
    IF i <= Len(created) /\ Ready(created[i])
    THEN CollectFrom(i + 1, created,
                     AfterAwait(results, created[i].agent_name, created[i].outcome))
    ELSE [awaiting |-> i, results |-> results]

\* asyncio.create_task for each selected agent that is registered
CreatedTasks(agents) ==
    SubSeq([i \in 1..Len(TaskNames(agents)) |->
               [agent_name |-> TaskNames(agents)[i], done |-> FALSE,
                outcome |-> [raised |-> FALSE, results |-> <<>>]]],
           1, Len(TaskNames(agents)))

(***************************************************************************)
(* optimizer.py: TransactionOptimizer.  Dicts live in a heap, a sequence   *)
(* whose indices are the references the code passes around, so that a copy *)
(* and an alias of the caller's transaction differ.  A strategy's outcome  *)
(* is [raised, tx, optimizations]: the dict it was given as it has left    *)
(* it, and the changes it has recorded; where it raises, the error too.    *)
(***************************************************************************)

\* The copy taken as the caller's own dict
CopyAsAlias(heap, ref) == [heap |-> heap, ref |-> ref]

\* transaction.copy(): a new dict with the same items
Copy(heap, ref) == [heap |-> Append(heap, heap[ref]), ref |-> Len(heap) + 1]

\* tx.update(other)
Update(tx, other) ==
    [k \in DOMAIN tx \cup DOMAIN other |-> IF k \in DOMAIN other THEN other[k] ELSE tx[k]]

Outcome(tx, optimizations) ==
    [raised |-> FALSE, tx |-> tx, optimizations |-> optimizations]

\* Three quarters of the gas rounded up
ThreeQuartersRoundedUp(gas) == (gas * 3 + 3) \div 4

\* The gas left as it is
ThreeQuartersNotTaken(gas) == gas

\* int(gas * 0.75) and int(gas * 1.5): the products are exact floats for
\* 0 <= gas < 2^51
ThreeQuarters(gas) == (gas * 3) \div 4

OneAndAHalf(gas) == (gas * 3) \div 2

\* _optimize_calldata: both of its paths return the data given
_optimize_calldata(data, objective) ==
    IF Len(data) > 200 /\ Contains[Lower[Get(objective, "type", "")], "swap"]
    THEN data
    ELSE data

\* The body of _optimize_gas's loop for one issue
OptimizeGasIssue(tx, issue, objective) ==
    IF Contains[issue.message, "exceeds threshold"]
    THEN LET recoded == /\ "data" \in DOMAIN tx
                        /\ Len(tx.data) > 10
                        /\ _optimize_calldata(tx.data, objective) # tx.data
             coded == IF recoded
                      THEN Outcome(Put(tx, "data", _optimize_calldata(tx.data, objective)),
                                   <<"Optimized calldata encoding for gas efficiency">>)
                      ELSE Outcome(tx, <<>>)
         IN  IF "gas" \in DOMAIN coded.tx
             THEN Outcome(Put(coded.tx, "gas", ThreeQuarters(coded.tx.gas)),
                          coded.optimizations
                            \o <<"Reduced gas limit from " \o ToString(coded.tx.gas)
                                   \o " to " \o ToString(ThreeQuarters(coded.tx.gas))>>)
             ELSE coded
    ELSE Outcome(tx, <<>>)

_add_mev_protection ==
    [flashbots_bundle |-> TRUE, max_priority_fee_per_gas |-> "5000000000"]

\* The loop's body with the MEV protection recorded but not merged in
OptimizeSecurityIssueWithoutUpdate(tx, issue, objective) ==
    IF Contains[issue.message, "Slippage"]
    THEN Outcome(tx, <<>>)
    ELSE IF Contains[issue.message, "MEV vulnerable"]
    THEN Outcome(tx, <<"Added MEV protection measures">>)
    ELSE IF Contains[issue.message, "value exceeds confirmation threshold"]
    THEN Outcome(tx, <<"Consider splitting into multiple smaller transactions">>)
    ELSE Outcome(tx, <<>>)

\* The body of _optimize_security's loop for one issue;
\* _add_slippage_protection returns None
OptimizeSecurityIssue(tx, issue, objective) ==
    IF Contains[issue.message, "Slippage"]
    THEN Outcome(tx, <<>>)
    ELSE IF Contains[issue.message, "MEV vulnerable"]
    THEN Outcome(Update(tx, _add_mev_protection), <<"Added MEV protection measures">>)
    ELSE IF Contains[issue.message, "value exceeds confirmation threshold"]
    THEN Outcome(tx, <<"Consider splitting into multiple smaller transactions">>)
    ELSE Outcome(tx, <<>>)

\* The loop body of _optimize_efficiency with a direct path found
OptimizeEfficiencyIssueWithDirectPath(tx, issue, objective) ==
    IF Contains[issue.message, "hop path when direct path is available"]
    THEN Outcome(Put(tx, "data", "0x"), <<"Switched to direct trading path">>)
    ELSE Outcome(tx, <<>>)

\* The body of _optimize_efficiency's loop for one issue: _find_direct_path
\* and _reduce_hop_count return None
OptimizeEfficiencyIssue(tx, issue, objective) == Outcome(tx, <<>>)

\* _fix_simulation_issues trying the gas fix whenever the value fix was not
\* applied
_fix_simulation_issues_falling_through(tx, issue, objective) ==
    IF /\ Contains[Lower[issue.message], "insufficient balance"]
       /\ "value" \in DOMAIN tx
       /\ IntRaises(tx.value)
    THEN [raised |-> TRUE, error |-> "ValueError",
          message |-> IntError(tx.value).message,
          tx |-> tx, optimizations |-> <<>>]
    ELSE IF /\ Contains[Lower[issue.message], "insufficient balance"]
            /\ "value" \in DOMAIN tx
            /\ ~BigIsZero[ToInt(tx.value)]
    THEN Outcome(Put(tx, "value", PyStr(BigStr[BigDivMod[ToInt(tx.value), <<2>>][1]])),
                 <<"Reduced transaction value to avoid insufficient balance">>)
    ELSE IF /\ Contains[Lower[issue.message], "gas required exceeds allowance"]
            /\ "gas" \in DOMAIN tx
    THEN Outcome(Put(tx, "gas", OneAndAHalf(tx.gas)),
                 <<"Increased gas limit to ensure execution">>)
    ELSE Outcome(tx, <<>>)

\* _fix_simulation_issues, as the outcome of tx.update(fixes["transaction"])
\* and the optimizations it lists
_fix_simulation_issues(tx, issue, objective) ==
    IF Contains[Lower[issue.message], "insufficient balance"]
    THEN IF "value" \in DOMAIN tx
         THEN IF IntRaises(tx.value)
              THEN [raised |-> TRUE, error |-> "ValueError",
                    message |-> IntError(tx.value).message,
                    tx |-> tx, optimizations |-> <<>>]
              ELSE IF ~BigIsZero[ToInt(tx.value)]
              THEN Outcome(Put(tx, "value",
                               PyStr(BigStr[BigDivMod[ToInt(tx.value), <<2>>][1]])),
                           <<"Reduced transaction value to avoid insufficient balance">>)
              ELSE Outcome(tx, <<>>)
         ELSE Outcome(tx, <<>>)
    ELSE IF Contains[Lower[issue.message], "gas required exceeds allowance"]
    THEN IF "gas" \in DOMAIN tx
         THEN Outcome(Put(tx, "gas", OneAndAHalf(tx.gas)),
                      <<"Increased gas limit to ensure execution">>)
         ELSE Outcome(tx, <<>>)
    ELSE Outcome(tx, <<>>)
\* The loop body recording the corrected target and leaving to as it was
OptimizeCorrectnessIssueKeepingTo(tx, issue, objective) ==
    IF Contains[issue.message, "target doesn't match"]
    THEN IF "target_address" \in DOMAIN objective
         THEN Outcome(tx, <<"Corrected target address to " \o objective.target_address>>)
         ELSE Outcome(tx, <<>>)
    ELSE IF Contains[issue.message, "simulation failed"]
    THEN _fix_simulation_issues(tx, issue, objective)
    ELSE Outcome(tx, <<>>)

\* The body of _optimize_correctness's loop for one issue
OptimizeCorrectnessIssue(tx, issue, objective) ==
    IF Contains[issue.message, "target doesn't match"]
    THEN IF "target_address" \in DOMAIN objective
         THEN Outcome(Put(tx, "to", objective.target_address),
                      <<"Corrected target address to " \o objective.target_address>>)
         ELSE Outcome(tx, <<>>)
    ELSE IF Contains[issue.message, "simulation failed"]
    THEN _fix_simulation_issues(tx, issue, objective)
    ELSE Outcome(tx, <<>>)

\* self.optimization_strategies
optimization_strategies == {"gas", "security", "efficiency", "correctness"}

OptimizeIssue(category, tx, issue, objective) ==
    CASE category = "gas" -> OptimizeGasIssue(tx, issue, objective)
      [] category = "security" -> OptimizeSecurityIssue(tx, issue, objective)
      [] category = "efficiency" -> OptimizeEfficiencyIssue(tx, issue, objective)
      [] category = "correctness" -> OptimizeCorrectnessIssue(tx, issue, objective)

\* A strategy's loop over its issues from index i on, having recorded done
RECURSIVE Strategy(_, _, _, _, _, _)
Strategy(category, tx, issues, objective, i, done) ==
    IF i > Len(issues) THEN Outcome(tx, done)
    ELSE LET step == OptimizeIssue(category, tx, issues[i], objective)
         IN  IF step.raised
             THEN [step EXCEPT !.optimizations = done \o step.optimizations]
             ELSE Strategy(category, step.tx, issues, objective, i + 1,
                           done \o step.optimizations)

\* The categories of the failed results, one entry for every failed result
FailedCategoriesWithRepeats(evaluation_results) ==
    LET Loop[i \in Nat, keys \in Seq(STRING)] ==
            IF i > Len(evaluation_results) THEN keys
            ELSE IF ~evaluation_results[i].passed
            THEN Loop[i + 1, Append(keys, evaluation_results[i].category)]
            ELSE Loop[i + 1, keys]
    IN  Loop[1, <<>>]

\* The keys of issues_by_category, in the order they are inserted
FailedCategories(evaluation_results) ==
    LET Loop[i \in Nat, keys \in Seq(STRING)] ==
            IF i > Len(evaluation_results) THEN keys
            ELSE IF ~evaluation_results[i].passed
                    /\ ~InSeq(evaluation_results[i].category, keys)
            THEN Loop[i + 1, Append(keys, evaluation_results[i].category)]
            ELSE Loop[i + 1, keys]
    IN  Loop[1, <<>>]

\* issues_by_category[category]
IssuesOf(evaluation_results, category) ==
    SelectSeq(evaluation_results, LAMBDA r : ~r.passed /\ r.category = category)

\* The loop over the categories from index i on: optimized_tx is the dict at
\* ref, which each strategy edits where it stands
RECURSIVE ApplyStrategies(_, _, _, _, _, _, _)
ApplyStrategies(heap, ref, categories, evaluation_results, objective, i, applied) ==
    IF i > Len(categories)
    THEN [raised |-> FALSE, heap |-> heap, transaction |-> ref, applied |-> applied]
    ELSE IF categories[i] \notin optimization_strategies
    THEN ApplyStrategies(heap, ref, categories, evaluation_results, objective,
                         i + 1, applied)
    ELSE LET done == Strategy(categories[i], heap[ref],
                              IssuesOf(evaluation_results, categories[i]),
                              objective, 1, <<>>)
         IN  IF done.raised
             THEN [raised |-> TRUE, error |-> done.error, message |-> done.message,
                   heap |-> [heap EXCEPT ![ref] = done.tx]]
             ELSE ApplyStrategies([heap EXCEPT ![ref] = done.tx], ref, categories,
                                  evaluation_results, objective, i + 1,
                                  applied \o done.optimizations)

\* optimize_transaction for the transaction at reference transaction of heap:
\* the heap afterwards, and the reference and the list returned, or the error
optimize_transaction(heap, transaction, evaluation_results, objective) ==
    ApplyStrategies(Copy(heap, transaction).heap, Copy(heap, transaction).ref,
                    FailedCategories(evaluation_results), evaluation_results,
                    objective, 1, <<>>)

(***************************************************************************)
(* integrated_graph.py: the generator-evaluator workflow.  IntegratedState *)
(* is a record of its fields; a node returns the dict of the fields it     *)
(* sets, which the graph merges into the state: messages are appended      *)
(* (add_messages), every other field is replaced.  A message is kept as    *)
(* its kind and its content; of an AIMessage the first line is kept, no    *)
(* code reads more of it.  Where a value is used more than once it is      *)
(* named by a bound variable that ranges over the set of that one value.   *)
(***************************************************************************)

HumanMessage(content) == [kind |-> "human", content |-> content]

AIMessage(content) == [kind |-> "ai", content |-> content]

\* The state after a node's update
Merge(state, update) ==
    [f \in DOMAIN state |->
        IF f \notin DOMAIN update THEN state[f]
        ELSE IF f = "messages" THEN state[f] \o update[f]
        ELSE update[f]]

\* any(word in lower_msg for word in words)
AnyWord(lower_msg, words) == \E w \in words : Contains[lower_msg, w]

\* The content of the latest HumanMessage, "" where there is none (the code
\* treats None and "" alike: not user_message)
LatestUserMessage(messages) ==
    IF \A i \in 1..Len(messages) : messages[i].kind # "human"
    THEN ""
    ELSE messages[CHOOSE i \in 1..Len(messages) :
                     /\ messages[i].kind = "human"
                     /\ \A j \in (i + 1)..Len(messages) : messages[j].kind # "human"
                 ].content

\* [token.upper() for token in ["eth", "usdc", "usdt", "dai", "weth"]
\*  if token in lower_msg]
TokensIn(lower_msg) ==
    SelectSeq(<<"ETH", "USDC", "USDT", "DAI", "WETH">>,
              LAMBDA t : Contains[lower_msg, Lower[t]])

\* The end of the run of digits of s that starts at index i
DigitsEnd[s \in STRING, i \in Nat] ==
    IF i < Len(s) /\ IsDigitChar(SubSeq(s, i + 1, i + 1))
    THEN DigitsEnd[s, i + 1]
    ELSE i

\* re.findall(r'\d+\.?\d*', s)[:1]: the leftmost match, <<>> where none
FirstNumber[s \in STRING] ==
    IF \A i \in 1..Len(s) : ~IsDigitChar(SubSeq(s, i, i))
    THEN <<>>
    ELSE LET first == CHOOSE i \in 1..Len(s) :
                         /\ IsDigitChar(SubSeq(s, i, i))
                         /\ \A j \in 1..(i - 1) : ~IsDigitChar(SubSeq(s, j, j))
             whole == DigitsEnd[s, first]
         IN  IF whole < Len(s) /\ SubSeq(s, whole + 1, whole + 1) = "."
             THEN <<SubSeq(s, first, DigitsEnd[s, whole + 1])>>
             ELSE <<SubSeq(s, first, whole)>>

\* The objective analyze_request builds from a request that names a swap, an
\* arbitrage, a transfer or a send
ObjectiveOf(user_message) ==
    LET lower_msg == Lower[user_message]
        tokens == TokensIn(lower_msg)
        amounts == FirstNumber[lower_msg]
        raw == [raw_message |-> user_message]
    IN  IF Contains[lower_msg, "swap"]
        THEN Update(Update(Put(raw, "type", "swap"),
                           IF Len(tokens) >= 2
                           THEN [token_in |-> tokens[1], token_out |-> tokens[2]]
                           ELSE EmptyDict),
                    IF amounts # <<>> THEN [amount |-> amounts[1]] ELSE EmptyDict)
        ELSE IF Contains[lower_msg, "arbitrage"]
        THEN Put(raw, "type", "arbitrage")
        ELSE Put(raw, "type", "transfer")

analyze_request(state) ==
    IF state.messages = <<>>
    THEN [messages |-> <<AIMessage("Hello! I can help you generate and evaluate Ethereum transactions. What would you like to do?")>>,
          awaiting_user_input |-> TRUE]
    ELSE IF LatestUserMessage(state.messages) = ""
    THEN [messages |-> <<AIMessage("Please provide a request.")>>,
          awaiting_user_input |-> TRUE]
    ELSE LET user_message == LatestUserMessage(state.messages)
             lower_msg == Lower[user_message]
         IN  IF AnyWord(lower_msg, {"swap", "arbitrage", "transfer", "send"})
             THEN [current_objective |-> ObjectiveOf(user_message),
                   messages |->
                       <<AIMessage("I'll help you with a "
                                     \o ObjectiveOf(user_message).type
                                     \o " transaction. Let me generate the details...")>>,
                   awaiting_user_input |-> FALSE]
             ELSE IF /\ AnyWord(lower_msg, {"yes", "apply", "optimize", "improve"})
                     /\ state.evaluation_results # <<>>
                     /\ ~state.evaluation_results[Len(state.evaluation_results)].all_valid
             THEN [messages |->
                       <<AIMessage("Applying optimizations based on evaluation feedback...")>>,
                   awaiting_user_input |-> FALSE]
             ELSE [messages |-> <<AIMessage("I can help you generate and evaluate Ethereum transactions. Try asking me to swap tokens, find arbitrage opportunities, or transfer funds.")>>,
                   awaiting_user_input |-> TRUE]

\* str(int(float(amount) * 1e18)) for an amount of digits only, where the
\* product is exact; an amount with a point is not among the requests made
EthToWei(amount) == BigStr[Shift[ParseInt[amount], 18]]

\* The amount_in the swap encoder is given
AmountIn(objective) ==
    IF Get(objective, "token_in", "ETH") = "ETH"
    THEN EthToWei(Get(objective, "amount", "1"))
    ELSE Get(objective, "amount", "1")

\* generate_transactions; tools holds what the price, encoder and arbitrage
\* tools answer: raised with the error's text, or the swap data's success,
\* to and data, and whether there are arbitrage opportunities and their
\* max_profit.  The swap data's value is the amount_in it was given; a
\* missing type (None) is read as "", which equals neither type.
GeneratedTransactions(objective, tools) ==
    IF Get(objective, "type", "") = "swap"
    THEN IF tools.success
         THEN <<[to |-> tools.to, data |-> tools.data,
                 value |-> PyStr(AmountIn(objective)), gas |-> 250000,
                 type |-> "swap",
                 description |-> "Swap " \o Get(objective, "amount", "1") \o " "
                                   \o Get(objective, "token_in", "ETH") \o " for "
                                   \o Get(objective, "token_out", "USDC"),
                 dex |-> "Uniswap V3"]>>
         ELSE <<>>
    ELSE IF Get(objective, "type", "") = "arbitrage"
    THEN IF tools.opportunities
         THEN <<[type |-> "arbitrage", description |-> "Multi-DEX arbitrage",
                 estimated_profit |-> tools.max_profit, gas |-> 400000,
                 to |-> "0xArbitrageRouter", data |-> "0x", value |-> PyStr("0")]>>
         ELSE <<>>
    ELSE <<>>

generate_transactions(state, tools) ==
    IF DOMAIN state.current_objective = {}
    THEN [messages |->
              <<AIMessage("No objective found. Please specify what you'd like to do.")>>,
          awaiting_user_input |-> TRUE]
    ELSE IF tools.raised /\ Get(state.current_objective, "type", "")
                               \in {"swap", "arbitrage"}
    THEN [messages |->
              <<AIMessage("Error generating transactions: " \o tools.message)>>,
          awaiting_user_input |-> TRUE]
    ELSE IF GeneratedTransactions(state.current_objective, tools) # <<>>
    THEN [generated_transactions |->
              GeneratedTransactions(state.current_objective, tools),
          messages |->
              <<AIMessage("Generated "
                  \o ToString(Len(GeneratedTransactions(state.current_objective, tools)))
                  \o " transaction(s):")>>,
          awaiting_user_input |-> FALSE]
    ELSE [messages |->
              <<AIMessage("No viable transactions found. Please try a different request.")>>,
          awaiting_user_input |-> TRUE]

\* What a node's coroutine ends with where it returns
Returned(update) == [raised |-> FALSE, update |-> update]

\* coordinator.analyze_transaction(tx, objective, context) with every agent:
\* the results dict, whose items come in the order the tasks are awaited
SubagentAnalysis(objects) ==
    AfterAwait(
        AfterAwait(
            AfterAwait(
                AfterAwait(EmptyDict, "gas", TaskOutcome("gas", objects, EmptyDict)),
                "security", TaskOutcome("security", objects, EmptyDict)),
            "mev", TaskOutcome("mev", objects, EmptyDict)),
        "state", TaskOutcome("state", objects, EmptyDict))

\* The findings the merging loop appends for one transaction
SubagentFindings(objects) ==
    CHOOSE findings \in
        { analysis["gas"] \o analysis["security"] \o analysis["mev"]
            \o analysis["state"] : analysis \in {SubagentAnalysis(objects)} } : TRUE

\* The merging loop: each transaction's results extended by the findings of
\* every agent; valid and all_valid stay as the evaluator set them
RECURSIVE Merged(_, _, _, _, _)
Merged(evaluation, transactions, objective, context, i) ==
    IF i > Len(transactions)
    THEN evaluation
    ELSE Merged([evaluation EXCEPT
                    !.transaction_results[i].results =
                        @ \o SubagentFindings([transaction |-> transactions[i],
                                 objective |-> objective, context |-> context])],
                transactions, objective, context, i + 1)

\* The dict evaluate_transaction_batch returns, as the state stores it
EvaluationDict(report) ==
    [all_valid |-> report.all_valid,
     transaction_results |-> report.transaction_results,
     optimization_tips |-> report.optimization_tips,
     summary |-> report.summary]

\* config.get("configurable", {}).get("enable_subagents", True)
EnableSubagents(config) ==
    Get(Get(config, "configurable", EmptyDict), "enable_subagents", TRUE)

\* The end of evaluate_transactions, from the test of all_valid on.  The
\* results are ValidationResult objects, so result["passed"] in the report
\* of an invalid transaction raises TypeError.
EvaluationReported(state, evaluation) ==
    IF evaluation.all_valid
    THEN Returned([evaluation_results |->
                       Append(state.evaluation_results, evaluation),
                   final_transactions |-> state.generated_transactions,
                   messages |-> <<AIMessage("Evaluation Results:")>>,
                   awaiting_user_input |-> TRUE])
    ELSE IF \E t \in 1..Len(evaluation.transaction_results) :
               /\ ~evaluation.transaction_results[t].valid
               /\ evaluation.transaction_results[t].results # <<>>
    THEN Raise("TypeError", "'ValidationResult' object is not subscriptable")
    ELSE Returned([evaluation_results |->
                       Append(state.evaluation_results, evaluation),
                   messages |-> <<AIMessage("Evaluation Results:")>>,
                   awaiting_user_input |-> TRUE])

\* evaluate_transactions from the evaluator's report on
EvaluationMerged(state, config, simulation_results, report) ==
    IF report.raised
    THEN report
    ELSE IF EnableSubagents(config)
    THEN CHOOSE outcome \in
             { EvaluationReported(state, evaluation) :
                 evaluation \in
                     {Merged(EvaluationDict(report), state.generated_transactions,
                             state.current_objective,
                             [current_base_fee |-> Shift[<<3>>, 10],
                              simulation_results |-> PyList(simulation_results)],
                             1)} } : TRUE
    ELSE EvaluationReported(state, EvaluationDict(report))

\* evaluate_transactions; simulation_results holds, per transaction, what the
\* simulation tool answers ({"success": False, "error": ...} where it
\* raises).
evaluate_transactions(state, config, simulation_results) ==
    IF state.generated_transactions = <<>>
    THEN Returned([messages |-> <<AIMessage("No transactions to evaluate.")>>,
                   awaiting_user_input |-> TRUE])
    ELSE CHOOSE outcome \in
             { EvaluationMerged(state, config, simulation_results, report) :
                 report \in
                     {evaluate_transaction_batch(state.generated_transactions,
                          state.current_objective, PyList(simulation_results))} } :
             TRUE

\* optimizer.optimize_transaction(tx, tx_evaluation["results"], objective):
\* the results are ValidationResult objects, so result["passed"] raises
\* TypeError for the first of them
OptimizeWithObjects(tx, results, objective) ==
    IF results # <<>>
    THEN Raise("TypeError", "'ValidationResult' object is not subscriptable")
    ELSE CHOOSE outcome \in
             { [raised |-> FALSE, tx |-> done.heap[done.transaction],
                applied |-> done.applied] :
                 done \in {optimize_transaction(<<tx>>, 1, <<>>, objective)} } : TRUE

\* The optimizing loop from transaction i on
RECURSIVE OptimizeEach(_, _, _, _, _, _)
OptimizeEach(transactions, evaluation, objective, i, optimized, all_optimizations) ==
    IF i > Len(transactions)
    THEN [raised |-> FALSE, optimized_transactions |-> optimized,
          all_optimizations |-> all_optimizations]
    ELSE IF i > Len(evaluation.transaction_results)
    THEN Raise("IndexError", "list index out of range")
    ELSE IF evaluation.transaction_results[i].valid
    THEN OptimizeEach(transactions, evaluation, objective, i + 1,
                      Append(optimized, transactions[i]), all_optimizations)
    ELSE CHOOSE outcome \in
             { IF done.raised
               THEN done
               ELSE OptimizeEach(transactions, evaluation, objective, i + 1,
                                 Append(optimized, done.tx),
                                 all_optimizations \o done.applied) :
                 done \in {OptimizeWithObjects(transactions[i],
                               evaluation.transaction_results[i].results,
                               objective)} } : TRUE

\* What optimize_transactions returns once the loop is done
OptimizedReturned(state, done) ==
    IF done.raised
    THEN done
    ELSE Returned([generated_transactions |-> done.optimized_transactions,
                   optimization_history |->
                       Append(state.optimization_history,
                              [round |-> state.iteration_count + 1,
                               optimizations |-> done.all_optimizations]),
                   iteration_count |-> state.iteration_count + 1,
                   messages |->
                       <<AIMessage("Applied "
                           \o ToString(Len(done.all_optimizations))
                           \o " optimizations:")>>,
                   awaiting_user_input |-> FALSE])

\* optimize_transactions past the test for the iteration limit
OptimizeAll(state) ==
    CHOOSE outcome \in
        { OptimizedReturned(state, done) :
            done \in {OptimizeEach(state.generated_transactions,
                          state.evaluation_results[Len(state.evaluation_results)],
                          state.current_objective, 1, <<>>, <<>>)} } : TRUE

\* The step with the test for the iteration limit left out.
optimize_transactions_unlimited(state) ==
    IF state.evaluation_results = <<>>
    THEN Returned([messages |-> <<AIMessage("No evaluation results to optimize.")>>,
                   awaiting_user_input |-> TRUE])
    ELSE OptimizeAll(state)

optimize_transactions(state) ==
    IF state.evaluation_results = <<>>
    THEN Returned([messages |-> <<AIMessage("No evaluation results to optimize.")>>,
                   awaiting_user_input |-> TRUE])
    ELSE IF state.iteration_count >= state.max_iterations
    THEN Returned([messages |->
                       <<AIMessage("Reached maximum optimization iterations ("
                           \o ToString(state.max_iterations)
                           \o "). Using best available transactions.")>>,
                   final_transactions |-> state.generated_transactions,
                   awaiting_user_input |-> TRUE])
    ELSE OptimizeAll(state)

END == "__end__"

\* The last message is a HumanMessage that approves the optimization
LastApproves(messages) ==
    /\ messages # <<>>
    /\ messages[Len(messages)].kind = "human"
    /\ AnyWord(Lower[messages[Len(messages)].content], {"yes", "apply", "optimize"})

should_continue(state) ==
    IF state.awaiting_user_input
    THEN END
    ELSE IF DOMAIN state.current_objective # {} /\ state.generated_transactions = <<>>
    THEN "generate"
    ELSE IF state.generated_transactions # <<>> /\ state.evaluation_results = <<>>
    THEN "evaluate"
    ELSE IF state.evaluation_results = <<>>
    THEN END
    ELSE IF state.evaluation_results[Len(state.evaluation_results)].all_valid
    THEN END
    ELSE IF /\ state.iteration_count < state.max_iterations
            /\ LastApproves(state.messages)
    THEN "optimize"
    ELSE IF /\ state.iteration_count < state.max_iterations
            /\ Len(state.evaluation_results) > Len(state.optimization_history)
    THEN END
    ELSE IF /\ Len(state.optimization_history) > 0
            /\ state.generated_transactions # <<>>
            /\ Len(state.evaluation_results) <= Len(state.optimization_history)
    THEN "evaluate"
    ELSE END

\* The path map of the conditional edges that leave a node
Edges(node) ==
    CASE node = "analyze" -> {"generate", "evaluate", "optimize", END}
      [] node = "generate" -> {"evaluate", END}
      [] node = "evaluate" -> {"optimize", END}
      [] node = "optimize" -> {"evaluate", END}

\* Where the graph goes after node has left the state so: the node the path
\* map gives for what should_continue returns, a KeyError where it has none
Route(node, state) ==
    IF should_continue(state) \in Edges(node)
    THEN [raised |-> FALSE, node |-> should_continue(state)]
    ELSE Raise("KeyError", should_continue(state))

(***************************************************************************)
(* The bounds of the model and the inputs the operations are called with.  *)
(***************************************************************************)

\* Gas limits are taken this far on either side of each ceiling.
GasSlack == 2

\* Values are taken this far on either side of the confirmation threshold.
ValueSlack == 2

\* Minimum outputs are taken this far on either side of the 2% line.
SlippageSlack == 2

\* The longest swap path (in tokens).
MaxPathLen == 5

TxTypes ==
    {"eth_transfer", "erc20_transfer", "simple_swap", "complex_swap",
     "multi_hop_swap", "flash_loan", "transfer"}

GasInputs ==
    {0} \cup { (GasThreshold(t) * 3) \div 2 + d :
                 t \in TxTypes, d \in (0 - GasSlack)..GasSlack }

\* A transaction with the given gas limit, and one without the key.
GasTxInputs ==
    { [to |-> "0xDEAD", gas |-> g] : g \in GasInputs } \cup { [to |-> "0xDEAD"] }

\* a + d for an integer d (not below zero)
BigOffset[a \in Digits, d \in Int] ==
    IF d >= 0 THEN BigAdd[a, Big[d]]
    ELSE IF BigLess[a, Big[0 - d]] THEN <<0>> ELSE BigSub[a, Big[0 - d]]

ValueInputs ==
    {<<0>>, <<1>>, Shift[<<2>>, 18], Shift[<<5>>, 18], Shift[<<6>>, 18]}
      \cup { BigOffset[Shift[<<1>>, 18], d] : d \in (0 - ValueSlack)..ValueSlack }

ExpectedOutputInputs ==
    {<<0>>, <<1>>, Big[100], Big[1000], Big[4999], Shift[<<1>>, 18],
     ParseInt["4000000000000000000000000049"]}

\* For an expected output e: minimum outputs around 98% of e, and 0, e, e + 1.
MinOutputInputs(e) ==
    {<<0>>, e, BigAdd[e, <<1>>]}
      \cup { BigOffset[BigSub[e, BigDivMod[e, Big[50]][1]], d] :
               d \in (0 - SlippageSlack)..SlippageSlack }

ProtocolInputs ==
    {"uniswap_v3", "sushiswap", "curve", "balancer", "1inch",
     "Curve", "UNISWAP_V3", "1Inch", "pancakeswap", "curve ", ""}

Tokens == {"WETH", "USDC"}

PathInputs == UNION { [1..n -> Tokens] : n \in 0..MaxPathLen }

\* The most transactions in a batch.
MaxBatch == 3

RouterData == "0x38ed1739" \o "0000000000000000"

TransferData == "0xa9059cbb" \o "0000000000000000"

TransactionInputs ==
    {[to |-> "0xDEAD", value |-> PyInt(Shift[<<2>>, 18]), data |-> "0x", gas |-> 21000],
     [to |-> "0xDEAD", value |-> PyStr("2000000000000000000"), data |-> "0x",
      gas |-> 21000],
     [to |-> "0xdead", gas |-> 21000],
     [to |-> "0xBEEF", value |-> PyStr("1000"), data |-> TransferData, gas |-> 97501],
     [to |-> "0xBEEF", value |-> PyInt(<<0>>), data |-> RouterData, gas |-> 400000],
     [to |-> "0xDEAD", value |-> PyInt(Shift[<<1>>, 18]), data |-> RouterData],
     [to |-> "0xDEAD", value |-> PyInt(BigAdd[Shift[<<1>>, 18], <<1>>]),
      data |-> RouterData, gas |-> 225000],
     [to |-> "0xDEAD", value |-> PyInt(Shift[<<6>>, 18]), data |-> RouterData,
      gas |-> 150000],
     [to |-> "0xDEAD", value |-> PyStr("0x10"), data |-> "0x", gas |-> 21000],
     [data |-> "0x38ed1739"],
     [to |-> "0xDEAD", data |-> "0xA9059CBB0000000000000000", gas |-> 31501]}

\* Transactions by their data: none, empty, a bare selector, a selector cut
\* short, the ERC20 transfer selector alone, with arguments and in capitals,
\* and router calls
TypeTransactionInputs ==
    {[to |-> "0xDEAD"],
     [data |-> "0x"],
     [data |-> "0x38ed1739"],
     [data |-> "0xa9059cb"],
     [data |-> "0xa9059cbb"],
     [data |-> "0xa9059cbb0"],
     [data |-> TransferData],
     [data |-> "0xA9059CBB0000000000000000"],
     [data |-> RouterData]}

TypeObjectiveInputs ==
    {EmptyDict} \cup
    { [type |-> t] : t \in {"swap", "SWAP", "Multi-Hop Swap", "triangular swap",
                            "complex_swap", "multi complex swap", "flash swap",
                            "multicall", "complex", "transfer", "arbitrage"} }

ObjectiveInputs ==
    {EmptyDict,
     [type |-> "transfer"],
     [type |-> "swap", target_address |-> "0xdead",
      expected_output |-> Big[1000], min_output |-> Big[980]],
     [type |-> "swap", expected_output |-> Big[1000], min_output |-> Big[979]],
     [type |-> "Multi-Hop Swap", target_address |-> "0xBEEF"],
     [type |-> "complex_swap", expected_output |-> <<0>>, min_output |-> <<0>>],
     [type |-> "swap", mev_protection |-> TRUE],
     [type |-> "triangular swap",
      expected_changes |-> <<<<"ETH", 100>>, <<"USDC", 0 - 200>>>>],
     [type |-> "swap", expected_changes |-> <<<<"ETH", 0>>>>]}
      \cup { [type |-> "swap", protocol |-> p] : p \in ProtocolInputs }

SimulationInputs ==
    {None, EmptyDict,
     [success |-> FALSE, error |-> "insufficient balance"],
     [success |-> FALSE],
     [error |-> "execution reverted"],
     [success |-> TRUE],
     [success |-> TRUE, asset_changes |-> [ETH |-> 100, USDC |-> 0 - 190]],
     [success |-> TRUE, asset_changes |-> [ETH |-> 103]]}

\* The transactions of the batches: valid ones, invalid ones, one that raises.
BatchTransactionInputs ==
    {[to |-> "0xDEAD", value |-> PyInt(Shift[<<2>>, 18]), data |-> "0x", gas |-> 21000],
     [to |-> "0xBEEF", value |-> PyInt(<<0>>), data |-> RouterData, gas |-> 400000],
     [to |-> "0xDEAD", value |-> PyStr("0x10"), data |-> "0x", gas |-> 21000]}

BatchObjectiveInputs ==
    {[type |-> "transfer"],
     [type |-> "swap", target_address |-> "0xdead", protocol |-> "uniswap_v3"],
     [type |-> "swap", protocol |-> "pancakeswap"]}

BatchInputs == UNION { [1..n -> BatchTransactionInputs] : n \in 0..MaxBatch }

\* simulation_results for a batch of n: omitted, one per transaction (empty,
\* or the first one failed), or a list one short.
BatchSimulationInputs(n) ==
    {None,
     PyList(SubSeq([i \in 1..n |-> EmptyDict], 1, n)),
     PyList(SubSeq([i \in 1..n |-> IF i = 1 THEN [success |-> FALSE] ELSE EmptyDict],
                   1, n)),
     PyList(SubSeq([i \in 1..n |-> EmptyDict], 1, n - 1))}

\* "0x" and n bytes ff, built by doubling
Repeat[s \in STRING, n \in Nat] ==
    IF n = 0 THEN ""
    ELSE IF n % 2 = 1 THEN s \o Repeat[s \o s, n \div 2]
    ELSE Repeat[s \o s, n \div 2]

\* Calldata whose bytes cost 16 * 3126 = 50016 gas
LongCalldata == "0x" \o Repeat["ff", 3126]

\* The transactions the coordinator is called with: a large swap, a value and
\* calldata that make an agent raise, long calldata with low fees, a
\* privileged call, and an empty transaction.
CoordTransactionInputs ==
    {[to |-> "0xDEAD", value |-> PyInt(Shift[<<6>>, 18]), data |-> RouterData,
      gas |-> 150000],
     [to |-> "0xDEAD", value |-> PyStr("0x10"), data |-> "0x"],
     [to |-> "0xBEEF", data |-> "0x23b872dd00zz"],
     [data |-> LongCalldata, maxFeePerGas |-> PyInt(Shift[<<3>>, 10]),
      maxPriorityFeePerGas |-> PyStr("100")],
     [to |-> "0x00000000000000000000000000000000000000AB",
      data |-> "0x3ccfd60b", value |-> PyInt(<<1>>)],
     EmptyDict}

CoordObjectiveInputs ==
    {EmptyDict,
     [type |-> "swap", expected_output |-> Shift[<<3>>, 18],
      min_output |-> Shift[<<1>>, 18]],
     [type |-> "Swap", mev_protection |-> TRUE,
      expected_changes |-> <<<<"ETH", 100>>, <<"USDC", 0 - 200>>>>],
     [type |-> "liquidation", expected_state |-> "closed"]}

\* Objectives for the MEV estimate: a swap or not, expected_output and
\* min_output each absent, 0, or set so that their difference stands below,
\* at, just above and far above 2 * 10^17 wei
MevObjectiveInputs ==
    { [type |-> t] : t \in {"swap", "Multi-Hop Swap", "transfer"} }
    \cup
    { [type |-> t, expected_output |-> e] :
         t \in {"swap", "transfer"}, e \in {<<0>>, Shift[<<3>>, 18]} }
    \cup
    { [type |-> t, min_output |-> m] :
         t \in {"swap", "transfer"}, m \in {<<0>>, Shift[<<1>>, 18]} }
    \cup
    { [type |-> t, expected_output |-> e, min_output |-> m] :
         t \in {"swap", "Multi-Hop Swap", "transfer"},
         e \in {<<0>>, Shift[<<2>>, 17], BigAdd[Shift[<<2>>, 17], <<1>>],
                BigAdd[Shift[<<2>>, 17], <<1, 7>>], Shift[<<1>>, 18],
                BigAdd[Shift[<<1, 2>>, 17], <<1>>], Shift[<<3>>, 18]},
         m \in {<<0>>, <<1>>, Shift[<<1>>, 18]} }

\* Router calls whose value stands at and around the evaluator's 1 ETH and
\* the security validator's 5 ETH
FrontTransactionInputs ==
    {[to |-> "0xDEAD", data |-> RouterData, gas |-> 150000]}
    \cup
    { [to |-> "0xDEAD", value |-> v, data |-> RouterData, gas |-> 150000] :
         v \in {PyInt(<<0>>), PyInt(Shift[<<1>>, 18]),
                PyInt(BigAdd[Shift[<<1>>, 18], <<1>>]),
                PyInt(Shift[<<5>>, 18]),
                PyInt(BigAdd[Shift[<<5>>, 18], <<1>>]),
                PyStr("5000000000000000001"),
                PyInt(Shift[<<6>>, 18])} }

FrontObjectiveInputs ==
    {EmptyDict,
     [type |-> "transfer"],
     [type |-> "swap"],
     [type |-> "Multi-Hop Swap"],
     [type |-> "swap", mev_protection |-> TRUE],
     [type |-> "swap", mev_protection |-> FALSE],
     [type |-> "swap", target_address |-> "0xdead"],
     [type |-> "swap", target_address |-> "0xBEEF"],
     [type |-> "swap", expected_output |-> Big[1000], min_output |-> Big[980]]}

ContextInputs == {None, [current_base_fee |-> Shift[<<8>>, 10]]}

\* agents: omitted, a selection, and one with a name twice and an unknown name.
AgentsInputs ==
    {None,
     PyList(<<"mev", "gas">>),
     PyList(<<"state", "other", "security", "state">>)}

\* The agents made to fail from outside: none, or one of them.
FaultInputs ==
    {EmptyDict} \cup { [n \in {a} |-> "connection reset"] : a \in {"gas", "security", "mev", "state"} }

\* The agents whose analyze, for a reason outside these inputs, never ends:
\* none, or one of them.
HangInputs == {{}, {"security"}}

\* The transactions of the calls made where an analyze may never end: the
\* large swap and the value that makes an agent raise.
HangTransactionInputs ==
    {[to |-> "0xDEAD", value |-> PyInt(Shift[<<6>>, 18]), data |-> RouterData,
      gas |-> 150000],
     [to |-> "0xDEAD", value |-> PyStr("0x10"), data |-> "0x"]}

\* The longest list of evaluation results the optimizer is given
MaxResults == 2

\* Evaluation results as the optimizer reads them: failed ones that its
\* strategies match, failed ones that none matches, and one that passed.
EvaluationResultInputs ==
    {validate_gas([gas |-> 400000], "simple_swap"),
     ValidationResult(FALSE, "security", "MEV vulnerable: no private relay", "warning",
                      <<>>),
     ValidationResult(FALSE, "security", "Transaction is vulnerable to MEV attacks",
                      "warning", <<>>),
     validate_slippage(Big[1000], Big[900]),
     ValidationResult(FALSE, "security",
                      "Slippage tolerance leaves the swap MEV vulnerable", "warning",
                      <<>>),
     ValidationResult(FALSE, "security", "value exceeds confirmation threshold",
                      "critical", <<>>),
     ValidationResult(FALSE, "correctness",
                      "Transaction target doesn't match objective target", "critical",
                      <<>>),
     ValidationResult(FALSE, "correctness",
                      "Transaction simulation failed: Insufficient balance for transfer",
                      "critical", <<>>),
     ValidationResult(FALSE, "correctness",
                      "Transaction simulation failed: gas required exceeds allowance",
                      "critical", <<>>),
     ValidationResult(FALSE, "correctness",
                      "Transaction simulation failed: insufficient balance or gas required exceeds allowance",
                      "critical", <<>>),
     validate_path_efficiency(<<"WETH", "USDC", "DAI", "LINK", "WBTC">>, FALSE),
     validate_path_efficiency(<<"WETH", "DAI", "USDC">>, TRUE),
     ValidationResult(FALSE, "error", "Subagent gas failed: connection reset",
                      "warning", <<>>),
     validate_protocol("curve")}

EvaluationResultsInputs ==
    UNION { [1..n -> EvaluationResultInputs] : n \in 0..MaxResults }

OptTransactionInputs ==
    {[to |-> "0xDEAD", value |-> PyInt(Shift[<<2>>, 18]), data |-> RouterData,
      gas |-> 400000],
     [to |-> "0xBEEF", value |-> PyStr("1001"), gas |-> 21001],
     [to |-> "0xBEEF", value |-> PyStr("0x10"), data |-> "0x", gas |-> 31501],
     [to |-> "0xdead", value |-> PyInt(<<0>>), gas |-> 225001],
     [data |-> "0x"]}

OptObjectiveInputs ==
    {[type |-> "swap", target_address |-> "0xdead"],
     [type |-> "transfer"]}

\* The longest list of failed results whose categories are interleaved
MaxInterleaved == 3

\* Failed results of three categories, two of them of the same one, in
\* every order and with repeats
InterleavedResultInputs ==
    UNION { [1..n -> {validate_gas([gas |-> 400000], "simple_swap"),
                      ValidationResult(FALSE, "correctness",
                          "Transaction simulation failed: gas required exceeds allowance",
                          "critical", <<>>),
                      ValidationResult(FALSE, "correctness",
                          "Transaction target doesn't match objective target",
                          "critical", <<>>),
                      ValidationResult(FALSE, "security",
                          "MEV vulnerable: no private relay", "warning", <<>>)}]
            : n \in 0..MaxInterleaved }

\* The rounds on a transaction that passes the gas check, after which the
\* caller stops repeating
MaxSettledRounds == 2

\* Transactions without value, whose one failure can be the gas check: a
\* plain transfer and a router call, with gas at, just above and far above
\* what the check lets pass
RoundTransactionInputs ==
    { [to |-> "0xDEAD", data |-> d, gas |-> g] :
         d \in {"0x", RouterData},
         g \in {21000, 31500, 31501, 225001, 400000, 1000000} }

RoundObjectiveInputs ==
    {[type |-> "transfer"], [type |-> "swap"], [type |-> "Multi-Hop Swap"]}

\* The most runs of the graph the workflow's driver starts with a message.
MaxRuns == 2

\* The most runs it starts at the optimize step.
MaxOptimizeRuns == 4

\* What the user writes: a swap, an arbitrage and an approval.
UserMessageInputs ==
    {"Swap 6 ETH for USDC", "find an arbitrage", "yes, apply"}

\* What the tools of generate_transactions answer.
ToolInputs ==
    {[raised |-> TRUE, message |-> "connection reset"],
     [raised |-> FALSE, success |-> FALSE, opportunities |-> FALSE,
      max_profit |-> "Unknown"],
     [raised |-> FALSE, success |-> TRUE,
      to |-> "0xE592427A0AEce92De3Edee1F18E0157C05861564",
      data |-> "0x414bf389" \o Repeat["00", 12] \o Repeat["c0", 20],
      opportunities |-> TRUE, max_profit |-> "0.8"]}

\* What the simulation tool answers for a transaction.
FlowSimulationInputs ==
    {[success |-> FALSE, error |-> "No Alchemy API key provided"],
     [success |-> TRUE]}

ConfigInputs ==
    {EmptyDict, [configurable |-> [enable_subagents |-> FALSE]]}

(***************************************************************************)
(* The state.                                                              *)
(***************************************************************************)

VARIABLES
    rule_call,      \* the rule-engine call made: its name and arguments
    rule_result,    \* the ValidationResult it returned
    eval_call,      \* the evaluator call made: its name and arguments
    eval_result,    \* its outcome: what it returned, or what it raised
    coord_call,     \* the analyze_transaction call in progress: its arguments
    coord_pc,       \* where it stands: "idle", "collect" or "returned"
    objects,        \* the transaction, objective and context the tasks share
    tasks,          \* the tasks created, in order: agent, done, outcome
    run_order,      \* the tasks' indices in the order they have run
    awaiting,       \* the index of the task the collecting loop awaits
    coord_results,  \* results: agent name -> list of ValidationResult
    heap,           \* the dicts the optimizer and its caller hold, by reference
    opt_call,       \* the optimizer call made: its arguments, and the caller's
                    \* transaction as it was when the call was made
    opt_result,     \* its outcome: the reference and the list returned, or
                    \* what it raised
    state,          \* the workflow's IntegratedState
    flow_node,      \* the node the run in progress is about to enter, or END
    flow_result,    \* what the last run raised, if it did
    flow_runs       \* the runs started: with a message, at the optimize step

rule_vars == <<rule_call, rule_result>>

eval_vars == <<eval_call, eval_result>>

coord_vars ==
    <<coord_call, coord_pc, objects, tasks, run_order, awaiting, coord_results>>

opt_vars == <<heap, opt_call, opt_result>>

flow_vars == <<state, flow_node, flow_result, flow_runs>>

vars == <<rule_vars, eval_vars, coord_vars, opt_vars, flow_vars>>

Idle == [op |-> "idle"]

NoResult == [op |-> "none"]

InitRules ==
    /\ rule_call = Idle
    /\ rule_result = NoResult

InitEval ==
    /\ eval_call = Idle
    /\ eval_result = NoResult

InitCoord ==
    /\ coord_call = Idle
    /\ coord_pc = "idle"
    /\ objects = NoResult
    /\ tasks = <<>>
    /\ run_order = <<>>
    /\ awaiting = 1
    /\ coord_results = EmptyDict

InitOpt ==
    /\ heap = <<>>
    /\ opt_call = Idle
    /\ opt_result = NoResult

\* max_iterations of an IntegratedState made without it
DefaultMaxIterations == 3

\* The workflow is compiled without a checkpointer: a run starts on the state
\* its caller hands it.  The states handed here are the default one and those
\* of a request whose transaction failed its evaluation (the simulation
\* failed), after n rounds of optimization and with the evaluation of the
\* last round made or still to make.
HandedObjective == ObjectiveOf("Swap 6 ETH for USDC")

HandedTransactions ==
    GeneratedTransactions(HandedObjective,
                          CHOOSE tools \in ToolInputs : ~tools.raised /\ tools.success)

HandedEvaluation ==
    EvaluationDict(evaluate_transaction_batch(HandedTransactions, HandedObjective,
        PyList(<<[success |-> FALSE, error |-> "No Alchemy API key provided"]>>)))

\* The rounds of optimization made and the evaluations stored: the evaluation
\* of the last round is made or still to make
HandedRounds ==
    { ne \in (0..DefaultMaxIterations) \X (1..(DefaultMaxIterations + 1)) :
        ne[2] \in {ne[1], ne[1] + 1} }

HandedStateInputs ==
    { [messages |-> <<HumanMessage("Swap 6 ETH for USDC"),
                      AIMessage("Evaluation Results:")>>,
       current_objective |-> HandedObjective,
       generated_transactions |-> HandedTransactions,
       evaluation_results |-> [i \in 1..ne[2] |-> evaluation],
       optimization_history |->
           [i \in 1..ne[1] |-> [round |-> i, optimizations |-> <<>>]],
       final_transactions |-> <<>>,
       iteration_count |-> ne[1],
       max_iterations |-> DefaultMaxIterations,
       awaiting_user_input |-> TRUE] :
         ne \in HandedRounds, evaluation \in {HandedEvaluation} }

\* IntegratedState()
InitFlow ==
    /\ state = [messages |-> <<>>, current_objective |-> EmptyDict,
                generated_transactions |-> <<>>, evaluation_results |-> <<>>,
                optimization_history |-> <<>>, final_transactions |-> <<>>,
                iteration_count |-> 0, max_iterations |-> DefaultMaxIterations,
                awaiting_user_input |-> FALSE]
    /\ flow_node = END
    /\ flow_result = NoResult
    /\ flow_runs = [invoke |-> 0, optimize |-> 0]

Init == InitRules /\ InitEval /\ InitCoord /\ InitOpt /\ InitFlow

\* The program makes one call at a time.
NoCall ==
    /\ rule_call = Idle
    /\ eval_call = Idle
    /\ coord_call = Idle
    /\ opt_call = Idle
    /\ flow_node = END

(***************************************************************************)
(* The rule engine's operations, each called from idle.                    *)
(***************************************************************************)

ValidateGas ==
    /\ NoCall
    /\ UNCHANGED <<eval_vars, coord_vars, opt_vars, flow_vars>>
    /\ \E tx_data \in GasTxInputs, tx_type \in TxTypes :
          /\ rule_call' = [op |-> "validate_gas", tx_data |-> tx_data,
                           tx_type |-> tx_type]
          /\ rule_result' = validate_gas(tx_data, tx_type)

ValidateSlippage ==
    /\ NoCall
    /\ UNCHANGED <<eval_vars, coord_vars, opt_vars, flow_vars>>
    /\ \E e \in ExpectedOutputInputs :
          \E m \in MinOutputInputs(e) :
             /\ rule_call' = [op |-> "validate_slippage", expected_output |-> e,
                              min_output |-> m]
             /\ rule_result' = validate_slippage(e, m)

ValidateValue ==
    /\ NoCall
    /\ UNCHANGED <<eval_vars, coord_vars, opt_vars, flow_vars>>
    /\ \E value \in ValueInputs, requires_confirmation \in BOOLEAN :
          /\ rule_call' = [op |-> "validate_value", value |-> value,
                           requires_confirmation |-> requires_confirmation]
          /\ rule_result' = validate_value(value, requires_confirmation)

ValidateProtocol ==
    /\ NoCall
    /\ UNCHANGED <<eval_vars, coord_vars, opt_vars, flow_vars>>
    /\ \E protocol \in ProtocolInputs :
          /\ rule_call' = [op |-> "validate_protocol", protocol |-> protocol]
          /\ rule_result' = validate_protocol(protocol)

ValidatePathEfficiency ==
    /\ NoCall
    /\ UNCHANGED <<eval_vars, coord_vars, opt_vars, flow_vars>>
    /\ \E path \in PathInputs, direct_available \in BOOLEAN :
          /\ rule_call' = [op |-> "validate_path_efficiency", path |-> path,
                           direct_available |-> direct_available]
          /\ rule_result' = validate_path_efficiency(path, direct_available)

\* The caller takes the result; the engine keeps nothing between calls.
RuleReturn ==
    /\ rule_call # Idle
    /\ UNCHANGED <<eval_vars, coord_vars, opt_vars, flow_vars>>
    /\ rule_call' = Idle
    /\ rule_result' = NoResult

NextRules ==
    \/ ValidateGas
    \/ ValidateSlippage
    \/ ValidateValue
    \/ ValidateProtocol
    \/ ValidatePathEfficiency
    \/ RuleReturn

SpecRules == Init /\ [][NextRules]_vars

(***************************************************************************)
(* The evaluator's operations.                                             *)
(***************************************************************************)

EvaluateTransaction ==
    /\ NoCall
    /\ UNCHANGED <<rule_vars, coord_vars, opt_vars, flow_vars>>
    /\ \E transaction \in TransactionInputs, objective \in ObjectiveInputs,
          simulation_result \in SimulationInputs :
          /\ eval_call' = [op |-> "evaluate_transaction",
                           transaction |-> transaction, objective |-> objective,
                           simulation_result |-> simulation_result]
          /\ eval_result' = evaluate_transaction(transaction, objective,
                                                 simulation_result)

EvaluateTransactionBatch ==
    /\ NoCall
    /\ UNCHANGED <<rule_vars, coord_vars, opt_vars, flow_vars>>
    /\ \E transactions \in BatchInputs, objective \in BatchObjectiveInputs :
          \E simulation_results \in BatchSimulationInputs(Len(transactions)) :
             /\ eval_call' = [op |-> "evaluate_transaction_batch",
                              transactions |-> transactions,
                              objective |-> objective,
                              simulation_results |-> simulation_results]
             /\ eval_result' = evaluate_transaction_batch(transactions, objective,
                                                          simulation_results)

\* The caller takes the outcome; the evaluator keeps nothing between calls.
EvalReturn ==
    /\ eval_call # Idle
    /\ eval_call' = Idle
    /\ eval_result' = NoResult
    /\ UNCHANGED <<rule_vars, coord_vars, opt_vars, flow_vars>>

NextEval ==
    \/ EvaluateTransaction
    \/ EvaluateTransactionBatch
    \/ EvalReturn

SpecEval == Init /\ [][NextRules \/ NextEval]_vars

\* The evaluator classifies a transaction.
DetermineTransactionType ==
    /\ NoCall
    /\ UNCHANGED <<rule_vars, coord_vars, opt_vars, flow_vars>>
    /\ \E transaction \in TypeTransactionInputs, objective \in TypeObjectiveInputs :
          /\ eval_call' = [op |-> "_determine_transaction_type",
                           transaction |-> transaction, objective |-> objective]
          /\ eval_result' = [raised |-> FALSE,
                             tx_type |-> _determine_transaction_type(transaction,
                                                                     objective)]

NextType ==
    \/ DetermineTransactionType
    \/ EvalReturn

SpecType == Init /\ [][NextType]_vars

(***************************************************************************)
(* SubAgentCoordinator.analyze_transaction.  The call creates one task per *)
(* selected agent and awaits them in that order; the event loop runs the   *)
(* tasks, each to its end (no analyze suspends), in an order the           *)
(* coordinator does not decide.  The task of an agent whose analyze never  *)
(* ends is never done.                                                     *)
(***************************************************************************)

\* The call up to its first await: the tasks are created, none has run.
Called(transaction, objective, context, agents, faults, hangs) ==
    /\ coord_call' = [op |-> "analyze_transaction", transaction |-> transaction,
                      objective |-> objective, context |-> context,
                      agents |-> agents, faults |-> faults, hangs |-> hangs]
    /\ objects' = [transaction |-> transaction, objective |-> objective,
                   context |-> IF context = None THEN EmptyDict ELSE context]
    /\ tasks' = CreatedTasks(agents)
    /\ coord_pc' = IF CreatedTasks(agents) = <<>> THEN "returned" ELSE "collect"
    /\ run_order' = <<>>
    /\ awaiting' = 1
    /\ coord_results' = EmptyDict

AnalyzeTransaction ==
    /\ NoCall
    /\ UNCHANGED <<rule_vars, eval_vars, opt_vars, flow_vars>>
    /\ \E transaction \in CoordTransactionInputs, objective \in CoordObjectiveInputs,
          context \in ContextInputs, agents \in AgentsInputs, faults \in FaultInputs :
          Called(transaction, objective, context, agents, faults, {})

\* The call made where an agent's analyze may never end.
AnalyzeTransactionUnending ==
    /\ NoCall
    /\ UNCHANGED <<rule_vars, eval_vars, opt_vars, flow_vars>>
    /\ \E transaction \in HangTransactionInputs, agents \in AgentsInputs,
          faults \in {EmptyDict, [gas |-> "connection reset"]}, hangs \in HangInputs :
          Called(transaction, [type |-> "swap"], None, agents, faults, hangs)

\* The event loop runs a task that has not run: the agent's analyze, start to
\* end, on the shared objects as they are now.
RunTask ==
    /\ coord_pc = "collect"
    /\ UNCHANGED <<rule_vars, eval_vars, opt_vars, flow_vars>>
    /\ \E i \in 1..Len(tasks) :
          /\ ~tasks[i].done
          /\ tasks[i].agent_name \notin coord_call.hangs
          /\ tasks' = [tasks EXCEPT ![i] =
                          [agent_name |-> tasks[i].agent_name, done |-> TRUE,
                           outcome |-> TaskOutcome(tasks[i].agent_name, objects,
                                                   coord_call.faults)]]
          /\ objects' = ObjectsAfter(tasks[i].agent_name, objects)
          /\ run_order' = Append(run_order, i)
    /\ UNCHANGED <<coord_call, coord_pc, awaiting, coord_results>>

\* The awaited task is done: the coordinator resumes and collects until it
\* awaits a task that is not done, or returns after the last one.
Collect ==
    /\ coord_pc = "collect"
    /\ Ready(tasks[awaiting])
    /\ UNCHANGED <<rule_vars, eval_vars, opt_vars, flow_vars>>
    /\ awaiting' = CollectFrom(awaiting, tasks, coord_results).awaiting
    /\ coord_results' = CollectFrom(awaiting, tasks, coord_results).results
    /\ coord_pc' = IF CollectFrom(awaiting, tasks, coord_results).awaiting > Len(tasks)
                   THEN "returned" ELSE "collect"
    /\ UNCHANGED <<coord_call, objects, tasks, run_order>>

\* The caller takes the mapping; the coordinator keeps nothing between calls.
CoordReturn ==
    /\ coord_pc = "returned"
    /\ UNCHANGED <<rule_vars, eval_vars, opt_vars, flow_vars>>
    /\ coord_call' = Idle
    /\ coord_pc' = "idle"
    /\ objects' = NoResult
    /\ tasks' = <<>>
    /\ run_order' = <<>>
    /\ awaiting' = 1
    /\ coord_results' = EmptyDict

NextCoord ==
    \/ AnalyzeTransaction
    \/ RunTask
    \/ Collect
    \/ CoordReturn

SpecCoord == Init /\ [][NextCoord]_vars

\* The call made for the MEV inspector alone, on objectives that set its
\* estimate.
AnalyzeForMev ==
    /\ NoCall
    /\ UNCHANGED <<rule_vars, eval_vars, opt_vars, flow_vars>>
    /\ \E objective \in MevObjectiveInputs :
          Called([to |-> "0xDEAD", value |-> PyInt(Shift[<<1>>, 18]),
                  data |-> RouterData, gas |-> 150000],
                 objective, None, PyList(<<"mev">>), EmptyDict, {})

NextMev ==
    \/ AnalyzeForMev
    \/ RunTask
    \/ Collect
    \/ CoordReturn

SpecMev == Init /\ [][NextMev]_vars

\* The call made for the security validator alone, on swaps and transfers
\* of values around its limit.
AnalyzeForSecurity ==
    /\ NoCall
    /\ UNCHANGED <<rule_vars, eval_vars, opt_vars, flow_vars>>
    /\ \E transaction \in FrontTransactionInputs, objective \in FrontObjectiveInputs :
          Called(transaction, objective, None, PyList(<<"security">>), EmptyDict, {})

NextFront ==
    \/ AnalyzeForSecurity
    \/ RunTask
    \/ Collect
    \/ CoordReturn

SpecFront == Init /\ [][NextFront]_vars

NextUnending ==
    \/ AnalyzeTransactionUnending
    \/ RunTask
    \/ Collect
    \/ CoordReturn

\* The event loop runs every task that is ready, and resumes the coordinator
\* once the task it awaits is done.
FairSpecCoord ==
    Init /\ [][NextUnending]_vars /\ WF_vars(RunTask) /\ WF_vars(Collect)

(***************************************************************************)
(* The optimizer's operations.                                             *)
(***************************************************************************)

\* The caller holds its transaction at reference 1 and passes the reference.
OptimizeTransaction ==
    /\ NoCall
    /\ UNCHANGED <<rule_vars, eval_vars, coord_vars, flow_vars>>
    /\ \E transaction \in OptTransactionInputs,
          evaluation_results \in EvaluationResultsInputs,
          objective \in OptObjectiveInputs :
          LET out == optimize_transaction(<<transaction>>, 1, evaluation_results,
                                          objective)
          IN  /\ opt_call' = [op |-> "optimize_transaction", transaction |-> 1,
                              before |-> transaction,
                              evaluation_results |-> evaluation_results,
                              objective |-> objective]
              /\ heap' = out.heap
              /\ opt_result' = IF out.raised
                               THEN Raise(out.error, out.message)
                               ELSE [raised |-> FALSE,
                                     transaction |-> out.transaction,
                                     applied |-> out.applied]

\* The caller takes the outcome and drops its dicts.
OptReturn ==
    /\ opt_call # Idle
    /\ UNCHANGED <<rule_vars, eval_vars, coord_vars, flow_vars>>
    /\ opt_call' = Idle
    /\ opt_result' = NoResult
    /\ heap' = <<>>

NextOpt ==
    \/ OptimizeTransaction
    \/ OptReturn

SpecOpt == Init /\ [][NextOpt]_vars

\* A caller hands optimize_transaction failed results of several categories,
\* interleaved.
OptimizeInterleaved ==
    /\ NoCall
    /\ UNCHANGED <<rule_vars, eval_vars, coord_vars, flow_vars>>
    /\ \E transaction \in OptTransactionInputs,
          evaluation_results \in InterleavedResultInputs,
          objective \in OptObjectiveInputs :
          \E out \in {optimize_transaction(<<transaction>>, 1, evaluation_results,
                                           objective)} :
             /\ opt_call' = [op |-> "optimize_transaction", transaction |-> 1,
                             before |-> transaction,
                             evaluation_results |-> evaluation_results,
                             objective |-> objective]
             /\ heap' = out.heap
             /\ opt_result' = IF out.raised
                              THEN Raise(out.error, out.message)
                              ELSE [raised |-> FALSE,
                                    transaction |-> out.transaction,
                                    applied |-> out.applied]

NextOrder ==
    \/ OptimizeInterleaved
    \/ OptReturn

SpecOrder == Init /\ [][NextOrder]_vars

\* A caller evaluates a transaction and hands the failed results, as the
\* dicts optimize_transaction reads (a ValidationResult's fields by name),
\* to optimize_transaction with the same transaction and objective.
OptimizeEvaluated ==
    /\ NoCall
    /\ UNCHANGED <<rule_vars, eval_vars, coord_vars, flow_vars>>
    /\ \E transaction \in TransactionInputs, objective \in ObjectiveInputs,
          simulation_result \in SimulationInputs :
          \E evaluation \in
                {evaluate_transaction(transaction, objective, simulation_result)} :
             /\ ~evaluation.raised
             /\ \E out \in
                    {optimize_transaction(<<transaction>>, 1,
                         SelectSeq(evaluation.results, LAMBDA r : ~r.passed),
                         objective)} :
                   /\ opt_call' = [op |-> "optimize_transaction", transaction |-> 1,
                                   before |-> transaction,
                                   evaluation_results |->
                                       SelectSeq(evaluation.results,
                                                 LAMBDA r : ~r.passed),
                                   objective |-> objective,
                                   simulation_result |-> simulation_result]
                   /\ heap' = out.heap
                   /\ opt_result' = IF out.raised
                                    THEN Raise(out.error, out.message)
                                    ELSE [raised |-> FALSE,
                                          transaction |-> out.transaction,
                                          applied |-> out.applied]

NextFeedback ==
    \/ OptimizeEvaluated
    \/ OptReturn

SpecFeedback == Init /\ [][NextFeedback]_vars

(***************************************************************************)
(* Rounds of feedback: a caller evaluates its transaction, hands the       *)
(* failed results to optimize_transaction, takes the transaction returned  *)
(* as its own, and repeats.  It stops once the gas check has passed for    *)
(* MaxSettledRounds rounds or earlier.                                     *)
(***************************************************************************)

\* validate_gas as evaluate_transaction applies it
GasCheck(transaction, objective) ==
    validate_gas(transaction, _determine_transaction_type(transaction, objective))

\* A call of the rounds is in progress
InRounds == opt_call # Idle /\ "round" \in DOMAIN opt_call

\* One round on this transaction, the round-th of the caller
RoundOn(transaction, objective, round, settled) ==
    \E evaluation \in {evaluate_transaction(transaction, objective, None)} :
       /\ ~evaluation.raised
       /\ \E out \in {optimize_transaction(<<transaction>>, 1,
                          SelectSeq(evaluation.results, LAMBDA r : ~r.passed),
                          objective)} :
             /\ opt_call' = [op |-> "optimize_transaction", transaction |-> 1,
                             before |-> transaction,
                             evaluation_results |->
                                 SelectSeq(evaluation.results, LAMBDA r : ~r.passed),
                             objective |-> objective,
                             round |-> round,
                             settled |-> IF GasCheck(transaction, objective).passed
                                         THEN settled + 1 ELSE 0]
             /\ heap' = out.heap
             /\ opt_result' = IF out.raised
                              THEN Raise(out.error, out.message)
                              ELSE [raised |-> FALSE,
                                    transaction |-> out.transaction,
                                    applied |-> out.applied]

StartRounds ==
    /\ NoCall
    /\ UNCHANGED <<rule_vars, eval_vars, coord_vars, flow_vars>>
    /\ \E transaction \in RoundTransactionInputs, objective \in RoundObjectiveInputs :
          RoundOn(transaction, objective, 1, 0)

\* The next round, on the transaction the last one returned
NextRound ==
    /\ InRounds
    /\ ~opt_result.raised
    /\ \/ ~GasCheck(heap[opt_result.transaction], opt_call.objective).passed
       \/ opt_call.settled < MaxSettledRounds
    /\ UNCHANGED <<rule_vars, eval_vars, coord_vars, flow_vars>>
    /\ RoundOn(heap[opt_result.transaction], opt_call.objective,
               opt_call.round + 1, opt_call.settled)

\* The caller stops, with a transaction that passes the gas check.
RoundsReturn ==
    /\ InRounds
    /\ ~opt_result.raised
    /\ GasCheck(heap[opt_result.transaction], opt_call.objective).passed
    /\ UNCHANGED <<rule_vars, eval_vars, coord_vars, flow_vars>>
    /\ opt_call' = Idle
    /\ opt_result' = NoResult
    /\ heap' = <<>>

NextRounds ==
    \/ StartRounds
    \/ NextRound
    \/ RoundsReturn

\* The caller goes on with its rounds while the gas check fails.
FairSpecRounds == Init /\ [][NextRounds]_vars /\ WF_vars(NextRound)

(***************************************************************************)
(* The workflow.  Its driver starts a run of the graph with a message of   *)
(* the user, at the entry point analyze, on the state the last run left;   *)
(* after a node the graph goes where should_continue and the node's path   *)
(* map send it.  Every node ends with an AIMessage, so should_continue     *)
(* never finds a HumanMessage last and never answers "optimize": a driver  *)
(* that runs the optimize step starts a run at that node.  An error a node *)
(* raises ends the run and leaves the state as it was.                     *)
(***************************************************************************)

\* Where a run goes after node has made the state s
Proceed(node, s) ==
    /\ state' = s
    /\ flow_node' = IF Route(node, s).raised THEN END ELSE Route(node, s).node
    /\ flow_result' = IF Route(node, s).raised THEN Route(node, s) ELSE NoResult

\* After the outcome of a node that may raise
Finish(node, outcome) ==
    IF outcome.raised
    THEN /\ flow_result' = outcome
         /\ flow_node' = END
         /\ UNCHANGED state
    ELSE \E s \in {Merge(state, outcome.update)} : Proceed(node, s)

Invoke ==
    /\ NoCall
    /\ flow_runs.invoke < MaxRuns
    /\ \E content \in UserMessageInputs :
          state' = [state EXCEPT !.messages = Append(@, HumanMessage(content))]
    /\ flow_node' = "analyze"
    /\ flow_result' = NoResult
    /\ flow_runs' = [flow_runs EXCEPT !.invoke = @ + 1]
    /\ UNCHANGED <<rule_vars, eval_vars, coord_vars, opt_vars>>

InvokeOptimize ==
    /\ NoCall
    /\ flow_runs.optimize < MaxOptimizeRuns
    /\ flow_node' = "optimize"
    /\ flow_result' = NoResult
    /\ flow_runs' = [flow_runs EXCEPT !.optimize = @ + 1]
    /\ UNCHANGED <<state, rule_vars, eval_vars, coord_vars, opt_vars>>

AnalyzeRequest ==
    /\ flow_node = "analyze"
    /\ \E s \in {Merge(state, analyze_request(state))} : Proceed("analyze", s)
    /\ UNCHANGED <<flow_runs, rule_vars, eval_vars, coord_vars, opt_vars>>

GenerateTransactions ==
    /\ flow_node = "generate"
    /\ \E tools \in ToolInputs :
          \E s \in {Merge(state, generate_transactions(state, tools))} :
             Proceed("generate", s)
    /\ UNCHANGED <<flow_runs, rule_vars, eval_vars, coord_vars, opt_vars>>

EvaluateTransactions ==
    /\ flow_node = "evaluate"
    /\ \E config \in ConfigInputs :
          \E simulation_results \in
                [1..Len(state.generated_transactions) -> FlowSimulationInputs] :
             \E outcome \in
                   {evaluate_transactions(state, config, simulation_results)} :
                Finish("evaluate", outcome)
    /\ UNCHANGED <<flow_runs, rule_vars, eval_vars, coord_vars, opt_vars>>

OptimizeTransactions ==
    /\ flow_node = "optimize"
    /\ \E outcome \in {optimize_transactions(state)} : Finish("optimize", outcome)
    /\ UNCHANGED <<flow_runs, rule_vars, eval_vars, coord_vars, opt_vars>>

NextFlow ==
    \/ Invoke
    \/ InvokeOptimize
    \/ AnalyzeRequest
    \/ GenerateTransactions
    \/ EvaluateTransactions
    \/ OptimizeTransactions

SpecFlow == Init /\ [][NextFlow]_vars

\* A run of the graph on a state its caller kept, with a new message of the
\* user appended
InvokeOnState ==
    /\ NoCall
    /\ flow_runs.invoke < MaxRuns
    /\ \E handed \in HandedStateInputs :
          \E content \in UserMessageInputs :
             state' = [handed EXCEPT !.messages = Append(@, HumanMessage(content))]
    /\ flow_node' = "analyze"
    /\ flow_result' = NoResult
    /\ flow_runs' = [flow_runs EXCEPT !.invoke = @ + 1]
    /\ UNCHANGED <<rule_vars, eval_vars, coord_vars, opt_vars>>

\* The workflow with runs on a handed state as well
NextResume ==
    \/ NextFlow
    \/ InvokeOnState

SpecResume == Init /\ [][NextResume]_vars

(***************************************************************************)
(* Properties of the rule engine.                                          *)
(***************************************************************************)

\* C6: validate_gas passes, with severity info, exactly when the gas limit (0
\* for a transaction without one) is at most one and a half times the ceiling
\* of the transaction type, that is 31500 for eth_transfer, 97500 for
\* erc20_transfer, 225000 for simple_swap, 450000 for complex_swap and any
\* unknown type, 750000 for multi_hop_swap; otherwise it fails with category
\* gas and severity warning.
C6_GasPassesUpToOneAndAHalfCeilings ==
    rule_call.op = "validate_gas" =>
        LET g == IF "gas" \in DOMAIN rule_call.tx_data
                 THEN rule_call.tx_data.gas ELSE 0
            most == CASE rule_call.tx_type = "eth_transfer"   -> 31500
                      [] rule_call.tx_type = "erc20_transfer" -> 97500
                      [] rule_call.tx_type = "simple_swap"    -> 225000
                      [] rule_call.tx_type = "complex_swap"   -> 450000
                      [] rule_call.tx_type = "multi_hop_swap" -> 750000
                      [] OTHER                                -> 450000
        IN  IF g <= most
            THEN rule_result.passed /\ rule_result.severity = "info"
            ELSE /\ ~rule_result.passed
                 /\ rule_result.category = "gas"
                 /\ rule_result.severity = "warning"

\* A gas limit one above the ceiling of an unknown type fails, and one at the
\* ceiling of a known type passes.
C6_Witness ==
    /\ rule_call.op = "validate_gas"
    /\ rule_call.tx_type = "flash_loan"
    /\ "gas" \in DOMAIN rule_call.tx_data
    /\ rule_call.tx_data.gas = 450001
    /\ ~rule_result.passed

\* C7: for expected_output > 0 validate_slippage passes exactly when the
\* slippage (expected_output - min_output) / expected_output * 100, computed
\* exactly, is at most 2.0, that is when 50 * (expected_output - min_output)
\* <= expected_output, and otherwise fails with severity warning; for
\* expected_output = 0 it fails with severity critical.
C7_SlippageDecidedExactly ==
    rule_call.op = "validate_slippage" =>
        LET e == rule_call.expected_output
            m == rule_call.min_output
        IN  IF BigIsZero[e]
            THEN ~rule_result.passed /\ rule_result.severity = "critical"
            ELSE IF BigLeq[e, m] \/ BigLeq[BigMul[BigSub[e, m], 50], e]
                 THEN rule_result.passed
                 ELSE ~rule_result.passed /\ rule_result.severity = "warning"

\* C8: validate_value with requires_confirmation fails, with category security
\* and severity warning, exactly when the value is above 10^18; without
\* requires_confirmation it passes for every value.
C8_ValueAboveThresholdNeedsConfirmation ==
    rule_call.op = "validate_value" =>
        IF /\ rule_call.requires_confirmation
           /\ BigLess[ParseInt["1000000000000000000"], rule_call.value]
        THEN /\ ~rule_result.passed
             /\ rule_result.category = "security"
             /\ rule_result.severity = "warning"
        ELSE rule_result.passed

\* The value 10^18 itself, with confirmation required, has passed.
C8_Witness ==
    /\ rule_call.op = "validate_value"
    /\ rule_call.requires_confirmation
    /\ rule_call.value = ParseInt["1000000000000000000"]
    /\ rule_result.passed

\* The result is the hop-count failure for n hops.
IsHopCountFailure(r, n) ==
    /\ ~r.passed
    /\ r.message = "Path has " \o ToString(n) \o " hops, exceeds maximum 3"

\* The result is the direct-path-preference failure for n hops.
IsDirectPathFailure(r, n) ==
    /\ ~r.passed
    /\ r.message = "Using " \o ToString(n) \o "-hop path when direct path is available"

\* C10 as claimed: for a path of n hops validate_path_efficiency reports the
\* hop-count failure exactly when n > 3 and the direct-path-preference failure
\* exactly when a direct route is available and n > 1 (prefer_direct_paths
\* being set), each whatever the other.
C10_BothFailuresIndependently ==
    rule_call.op = "validate_path_efficiency" =>
        LET n == Len(rule_call.path) - 1
        IN  /\ IsHopCountFailure(rule_result, n) <=> n > 3
            /\ IsDirectPathFailure(rule_result, n) <=>
                   (rule_call.direct_available /\ n > 1 /\ prefer_direct_paths)

\* C10 as the code has it: the one result returned is the hop-count failure
\* exactly when n > 3, the direct-path-preference failure exactly when a
\* direct route is available and 1 < n <= 3, and a pass otherwise.
C10_HopCountFailureComesFirst ==
    rule_call.op = "validate_path_efficiency" =>
        LET n == Len(rule_call.path) - 1
        IN  /\ IsHopCountFailure(rule_result, n) <=> n > 3
            /\ IsDirectPathFailure(rule_result, n) <=>
                   (rule_call.direct_available /\ n > 1 /\ n <= 3
                      /\ prefer_direct_paths)
            /\ rule_result.passed <=>
                   (n <= 3 /\ ~(rule_call.direct_available /\ n > 1))

\* A path of more than three hops with a direct route available has got the
\* hop-count failure and not the direct-path one.
C10_Witness ==
    /\ rule_call.op = "validate_path_efficiency"
    /\ Len(rule_call.path) - 1 > 3
    /\ rule_call.direct_available
    /\ IsHopCountFailure(rule_result, Len(rule_call.path) - 1)
    /\ ~IsDirectPathFailure(rule_result, Len(rule_call.path) - 1)

(***************************************************************************)
(* Properties of the evaluator.                                            *)
(***************************************************************************)

\* C1: whenever evaluate_transaction returns, is_valid is true exactly when
\* the returned results hold no result with passed = false and severity
\* critical; failed results of severity warning or info do not count.
C1_ValidIffNoFailedCritical ==
    (eval_call.op = "evaluate_transaction" /\ ~eval_result.raised) =>
        (eval_result.is_valid <=>
           \A i \in 1..Len(eval_result.results) :
               \/ eval_result.results[i].passed
               \/ eval_result.results[i].severity # "critical")

\* An evaluation has returned valid with a failed warning among its results.
C1_Witness ==
    /\ eval_call.op = "evaluate_transaction"
    /\ ~eval_result.raised
    /\ eval_result.is_valid
    /\ \E i \in 1..Len(eval_result.results) :
          /\ ~eval_result.results[i].passed
          /\ eval_result.results[i].severity = "warning"

\* C2: whenever evaluate_transaction_batch returns for N transactions, it has
\* one transaction_results entry per transaction, in input order, entry i
\* carrying index i (from 0) and the evaluation of transaction i; all_valid is
\* the conjunction of the entries' valid flags; and the summary is "All N
\* transactions passed validation" when all N are valid, "All N transactions
\* failed validation" when none of N > 0 is, "K of N transactions passed
\* validation" when 0 < K < N are.
C2_BatchEntriesAndSummary ==
    (eval_call.op = "evaluate_transaction_batch" /\ ~eval_result.raised) =>
        LET txs  == eval_call.transactions
            n    == Len(txs)
            sims == SimulationList(txs, eval_call.simulation_results)
            tr   == eval_result.transaction_results
            k    == Cardinality({i \in 1..Len(tr) : tr[i].valid})
        IN  /\ Len(tr) = n
            /\ \A i \in 1..n :
                  LET one == evaluate_transaction(txs[i], eval_call.objective,
                                                  sims[i])
                  IN  /\ tr[i].transaction_index = i - 1
                      /\ tr[i].valid = one.is_valid
                      /\ tr[i].results = one.results
            /\ eval_result.all_valid <=> \A i \in 1..n : tr[i].valid
            /\ k = n =>
                  eval_result.summary =
                      "All " \o ToString(n) \o " transactions passed validation"
            /\ (k = 0 /\ n > 0) =>
                  eval_result.summary =
                      "All " \o ToString(n) \o " transactions failed validation"
            /\ (0 < k /\ k < n) =>
                  eval_result.summary =
                      ToString(k) \o " of " \o ToString(n)
                        \o " transactions passed validation"

\* A batch of three has returned with two of them valid.
C2_Witness ==
    /\ eval_call.op = "evaluate_transaction_batch"
    /\ ~eval_result.raised
    /\ Len(eval_result.transaction_results) = 3
    /\ ~eval_result.all_valid
    /\ eval_result.summary = "2 of 3 transactions passed validation"

\* C9: validate_protocol passes exactly for the five allow-list entries
\* uniswap_v3, sushiswap, curve, balancer and 1inch, written exactly so, and
\* fails with severity critical for every other protocol; and an evaluation
\* that returns for an objective naming another protocol is not valid.
C9_ProtocolAllowListIsExact ==
    /\ rule_call.op = "validate_protocol" =>
          IF rule_call.protocol \in
                 {"uniswap_v3", "sushiswap", "curve", "balancer", "1inch"}
          THEN rule_result.passed
          ELSE ~rule_result.passed /\ rule_result.severity = "critical"
    /\ ( /\ eval_call.op = "evaluate_transaction"
         /\ ~eval_result.raised
         /\ "protocol" \in DOMAIN eval_call.objective
         /\ eval_call.objective.protocol \notin
                {"uniswap_v3", "sushiswap", "curve", "balancer", "1inch"} )
          => ~eval_result.is_valid

\* An evaluation for the protocol "Curve" has returned not valid, its one
\* failed critical result being the protocol's.
C9_Witness ==
    /\ eval_call.op = "evaluate_transaction"
    /\ ~eval_result.raised
    /\ "protocol" \in DOMAIN eval_call.objective
    /\ eval_call.objective.protocol = "Curve"
    /\ ~eval_result.is_valid
    /\ \A i \in 1..Len(eval_result.results) :
          (~eval_result.results[i].passed
             /\ eval_result.results[i].severity = "critical")
            => eval_result.results[i].message
                   = "Protocol Curve is not in allowed list"

(***************************************************************************)
(* Properties of the coordinator.                                          *)
(***************************************************************************)

\* The context the agents are given in the call in progress
CallContext ==
    IF coord_call.context = None THEN EmptyDict ELSE coord_call.context

\* What the agent does on the call's own arguments, whatever has run
Alone(a) ==
    IF a \in DOMAIN coord_call.faults
    THEN Raise("RuntimeError", coord_call.faults[a])
    ELSE Analyze(a, coord_call.transaction, coord_call.objective, CallContext)

\* The single finding that stands for an agent that raised
FailureFinding(a, message) ==
    [passed |-> FALSE, category |-> "error",
     message |-> "Subagent " \o a \o " failed: " \o message,
     severity |-> "warning", optimization_tip |-> <<>>]

AllFour == {"gas", "security", "mev", "state"}

\* The call in progress runs each of the four agents once.
RunsAllFour ==
    /\ Len(tasks) = 4
    /\ {tasks[i].agent_name : i \in 1..Len(tasks)} = AllFour

\* C3: when analyze_transaction runs all four subagents and exactly one of
\* them raises, the call returns a mapping over the four agents that holds
\* for the one that raised exactly the one finding (not passed, category
\* error, severity warning, message "Subagent <name> failed: <error>") and
\* for each of the other three the results it returns on these arguments.
C3_OneFailureIsIsolated ==
    (/\ coord_pc = "returned"
     /\ RunsAllFour
     /\ Cardinality({a \in AllFour : Alone(a).raised}) = 1)
    => /\ DOMAIN coord_results = AllFour
       /\ \A a \in AllFour :
             LET alone == Alone(a)
             IN  coord_results[a] =
                     IF alone.raised
                     THEN <<FailureFinding(a, alone.message)>>
                     ELSE alone.results

\* The call has returned after the security agent, run first, raised on the
\* transaction's value, and the agents run after it have their findings.
C3_Witness ==
    /\ coord_pc = "returned"
    /\ RunsAllFour
    /\ run_order[1] = 2
    /\ coord_call.faults = EmptyDict
    /\ {a \in AllFour : Alone(a).raised} = {"security"}
    /\ coord_results["security"] =
           <<FailureFinding("security",
                 "invalid literal for int() with base 10: '0x10'")>>
    /\ coord_results["mev"] # <<>>
    /\ coord_results["state"] # <<>>

\* C4: for fixed arguments the mapping analyze_transaction returns is the same
\* under every order in which the tasks run: each task ends with what its
\* agent does on the call's arguments alone, whichever tasks ran before it,
\* and the mapping returned holds that for each agent selected.
C4_OrderIndependent ==
    coord_pc = "returned" =>
        /\ DOMAIN coord_results = {tasks[i].agent_name : i \in 1..Len(tasks)}
        /\ \A i \in 1..Len(tasks) :
              LET alone == Alone(tasks[i].agent_name)
              IN  /\ tasks[i].outcome = alone
                  /\ coord_results[tasks[i].agent_name] =
                         IF alone.raised
                         THEN <<FailureFinding(tasks[i].agent_name, alone.message)>>
                         ELSE alone.results

\* The call has returned after the four tasks ran in the order mev, state,
\* security, gas, and the security agent, run after the mev agent, reports
\* the large swap without MEV protection.
C4_Witness ==
    /\ coord_pc = "returned"
    /\ run_order = <<3, 4, 2, 1>>
    /\ \E i \in 1..Len(coord_results["security"]) :
          /\ coord_results["security"][i].severity = "critical"
          /\ ~coord_results["security"][i].passed
    /\ coord_results["mev"] # <<>>

(***************************************************************************)
(* Properties of the optimizer.                                            *)
(***************************************************************************)

\* C5: optimize_transaction never mutates its input: after the call the
\* caller's transaction has exactly the keys and values it had before, and
\* the transaction returned is another dict, the only one that holds the
\* edits.
C5_InputIsNotMutated ==
    opt_call # Idle =>
        /\ heap[opt_call.transaction] = opt_call.before
        /\ ~opt_result.raised => opt_result.transaction # opt_call.transaction

\* A call has returned a transaction with less gas and the MEV protection
\* fields, edits its input has none of.
C5_Witness ==
    /\ opt_call # Idle
    /\ ~opt_result.raised
    /\ Len(opt_result.applied) = 2
    /\ "gas" \in DOMAIN opt_call.before
    /\ heap[opt_result.transaction].gas < opt_call.before.gas
    /\ "flashbots_bundle" \in DOMAIN heap[opt_result.transaction]
    /\ "flashbots_bundle" \notin DOMAIN heap[opt_call.transaction]

\* The failed results of the call made, and the transaction it returned
FailedResults ==
    SelectSeq(opt_call.evaluation_results, LAMBDA r : ~r.passed)

Optimized == heap[opt_result.transaction]

\* The failed results of the call that are of this category and whose
\* message holds this text
Matching(category, text) ==
    SelectSeq(FailedResults,
              LAMBDA r : r.category = category /\ Contains[r.message, text])

KeepsAllBut(keys) ==
    /\ DOMAIN opt_call.before \subseteq DOMAIN Optimized
    /\ DOMAIN Optimized \subseteq DOMAIN opt_call.before \cup keys
    /\ \A k \in DOMAIN opt_call.before \ keys : Optimized[k] = opt_call.before[k]

\* C12: for evaluation results whose one failed result is a security result
\* with "MEV vulnerable" in its message, optimize_transaction returns a
\* transaction with flashbots_bundle = true and max_priority_fee_per_gas =
\* "5000000000" and every other field of the input kept, and lists "Added
\* MEV protection measures".
C12_MevFindingAddsProtection ==
    (/\ opt_call # Idle
     /\ Len(FailedResults) = 1
     /\ Len(Matching("security", "MEV vulnerable")) = 1)
    => /\ ~opt_result.raised
       /\ "flashbots_bundle" \in DOMAIN Optimized
       /\ Optimized.flashbots_bundle = TRUE
       /\ "max_priority_fee_per_gas" \in DOMAIN Optimized
       /\ Optimized.max_priority_fee_per_gas = "5000000000"
       /\ KeepsAllBut({"flashbots_bundle", "max_priority_fee_per_gas"})
       /\ InSeq("Added MEV protection measures", opt_result.applied)

\* C12 as amended: the same for a message that contains "MEV vulnerable" and
\* does not contain "Slippage"; a message with "Slippage" in it takes the
\* slippage branch, which edits nothing.
C12_MevFindingWithoutSlippageAddsProtection ==
    (/\ opt_call # Idle
     /\ Len(FailedResults) = 1
     /\ Len(Matching("security", "MEV vulnerable")) = 1)
    => /\ ~opt_result.raised
       /\ IF Contains[FailedResults[1].message, "Slippage"]
          THEN Optimized = opt_call.before /\ opt_result.applied = <<>>
          ELSE /\ "flashbots_bundle" \in DOMAIN Optimized
               /\ Optimized.flashbots_bundle = TRUE
               /\ "max_priority_fee_per_gas" \in DOMAIN Optimized
               /\ Optimized.max_priority_fee_per_gas = "5000000000"
               /\ KeepsAllBut({"flashbots_bundle", "max_priority_fee_per_gas"})
               /\ opt_result.applied = <<"Added MEV protection measures">>

\* A swap with four fields and the one MEV finding has come back with the
\* two protection fields added and its gas, value, data and to as they were.
C12_Witness ==
    /\ opt_call # Idle
    /\ Len(FailedResults) = 1
    /\ FailedResults[1].category = "security"
    /\ FailedResults[1].message = "MEV vulnerable: no private relay"
    /\ ~opt_result.raised
    /\ DOMAIN opt_call.before = {"to", "value", "data", "gas"}
    /\ DOMAIN Optimized = {"to", "value", "data", "gas", "flashbots_bundle",
                           "max_priority_fee_per_gas"}
    /\ Optimized.flashbots_bundle = TRUE
    /\ Optimized.gas = opt_call.before.gas

\* The plain transfer of 2 ETH, its value an int or the int's string
IsTwoEthTransfer(transaction) ==
    /\ DOMAIN transaction = {"to", "value", "data", "gas"}
    /\ transaction.to = "0xDEAD"
    /\ transaction.value \in {PyInt(Shift[<<2>>, 18]), PyStr("2000000000000000000")}
    /\ transaction.data = "0x"
    /\ transaction.gas = 21000

\* The evaluator has been called with the 2 ETH transfer, the objective
\* {type: transfer} and no simulation result.
TwoEthScenario ==
    /\ eval_call.op = "evaluate_transaction"
    /\ IsTwoEthTransfer(eval_call.transaction)
    /\ eval_call.objective = [type |-> "transfer"]
    /\ eval_call.simulation_result = None

\* C13: evaluating the plain transfer of 2 ETH (to 0xDEAD, data 0x, gas
\* 21000) against {type: transfer} with no simulation result returns
\* is_valid = true, with exactly one result of category security and
\* severity warning, the finding on the value, and no critical result.
C13_TwoEthTransferIsValidWithOneWarning ==
    TwoEthScenario =>
        /\ ~eval_result.raised
        /\ eval_result.is_valid
        /\ Cardinality({i \in 1..Len(eval_result.results) :
                           /\ eval_result.results[i].category = "security"
                           /\ eval_result.results[i].severity = "warning"}) = 1
        /\ \A i \in 1..Len(eval_result.results) :
              /\ eval_result.results[i].severity # "critical"
              /\ (eval_result.results[i].category = "security"
                    /\ eval_result.results[i].severity = "warning")
                 => /\ ~eval_result.results[i].passed
                    /\ eval_result.results[i].message =
                         "Transaction value 2000000000000000000 exceeds confirmation threshold"

\* The scenario has been evaluated with the value given as a string, and the
\* finding on the value is among the results.
C13_Witness ==
    /\ TwoEthScenario
    /\ eval_call.transaction.value = PyStr("2000000000000000000")
    /\ ~eval_result.raised
    /\ eval_result.is_valid
    /\ \E i \in 1..Len(eval_result.results) :
          /\ ~eval_result.results[i].passed
          /\ eval_result.results[i].category = "security"
          /\ eval_result.results[i].severity = "warning"

\* C14: evaluate_transaction never raises for a transaction whose value is an
\* int or an int's decimal string: it returns (is_valid, results) for every
\* objective and simulation result, also when the simulation succeeded and
\* expected_changes holds an asset whose expected delta is 0.
C14_EvaluateNeverRaises ==
    (/\ eval_call.op = "evaluate_transaction"
     /\ ~IntRaises(Get(eval_call.transaction, "value", PyInt(<<0>>))))
    => ~eval_result.raised

\* The simulation result the batch call made has for index i, {} where it
\* has none
SimulationAt(i) ==
    IF eval_call.simulation_results = None THEN EmptyDict
    ELSE IF i > Len(eval_call.simulation_results.list) THEN EmptyDict
    ELSE eval_call.simulation_results.list[i]

\* What evaluating the batch's transaction i by itself gives
EvaluatedAlone(i) ==
    evaluate_transaction(eval_call.transactions[i], eval_call.objective,
                         SimulationAt(i))

\* C15: evaluate_transaction_batch evaluates every transaction of the batch,
\* one whose index has no simulation result (the list omitted, or shorter
\* than the batch) as with the empty simulation result {}, instead of the
\* call failing.
C15_MissingSimulationDefaultsToEmpty ==
    (/\ eval_call.op = "evaluate_transaction_batch"
     /\ \A i \in 1..Len(eval_call.transactions) : ~EvaluatedAlone(i).raised)
    => /\ ~eval_result.raised
       /\ Len(eval_result.transaction_results) = Len(eval_call.transactions)
       /\ \A i \in 1..Len(eval_call.transactions) :
             /\ eval_result.transaction_results[i].valid = EvaluatedAlone(i).is_valid
             /\ eval_result.transaction_results[i].results = EvaluatedAlone(i).results

\* The places <<transaction, result>> of the batch returned where a failed
\* result has a tip, the tip at a place, and the order of the places
TipPlaces ==
    {p \in (1..Len(eval_result.transaction_results)) \X (1..8) :
        /\ p[2] <= Len(eval_result.transaction_results[p[1]].results)
        /\ ~eval_result.transaction_results[p[1]].results[p[2]].passed
        /\ HasTip(eval_result.transaction_results[p[1]].results[p[2]])}

TipAt(p) == eval_result.transaction_results[p[1]].results[p[2]].optimization_tip[1]

ComesBefore(p, q) == p[1] < q[1] \/ (p[1] = q[1] /\ p[2] < q[2])

\* The first place where a failed result has this tip
FirstPlace(tip) ==
    CHOOSE p \in TipPlaces :
        /\ TipAt(p) = tip
        /\ \A q \in TipPlaces : TipAt(q) = tip => ~ComesBefore(q, p)

InvalidCount ==
    Cardinality({t \in 1..Len(eval_result.transaction_results) :
                    ~eval_result.transaction_results[t].valid})

\* C16: the optimization_tips of a batch result are the tips of the failed
\* results that have one, each distinct tip once, in the order of first
\* occurrence across the batch, with no tip that only passed results have,
\* followed by the batch-level tip exactly when more than one transaction of
\* the batch is invalid.
C16_TipsOfFailedResultsOnceInOrder ==
    (eval_call.op = "evaluate_transaction_batch" /\ ~eval_result.raised) =>
        LET tips == eval_result.optimization_tips
            n == Cardinality({TipAt(p) : p \in TipPlaces})
        IN  /\ \A t \in 1..Len(eval_result.transaction_results) :
                  Len(eval_result.transaction_results[t].results) <= 8
            /\ Len(tips) = n + (IF InvalidCount > 1 THEN 1 ELSE 0)
            /\ \A i \in 1..n : \E p \in TipPlaces : TipAt(p) = tips[i]
            /\ \A i \in 1..n : \A j \in (i + 1)..n :
                  /\ tips[i] # tips[j]
                  /\ ComesBefore(FirstPlace(tips[i]), FirstPlace(tips[j]))
            /\ InvalidCount > 1 =>
                  tips[n + 1] = "Consider breaking this into smaller, simpler transactions"

\* A batch has returned in which two transactions are invalid, a tip occurs
\* in the failed results of two transactions, and the tips are two or more
\* distinct ones followed by the batch-level tip.
C16_Witness ==
    /\ eval_call.op = "evaluate_transaction_batch"
    /\ ~eval_result.raised
    /\ InvalidCount > 1
    /\ \E p \in TipPlaces : \E q \in TipPlaces : p[1] # q[1] /\ TipAt(p) = TipAt(q)
    /\ Len(eval_result.optimization_tips) >= 3

(***************************************************************************)
(* Properties of the workflow.                                             *)
(***************************************************************************)

\* The evaluation the evaluate step has stored last
StoredEvaluation == state.evaluation_results[Len(state.evaluation_results)]

\* A failed finding of severity critical is among the results
HasCriticalFinding(results) ==
    \E r \in 1..Len(results) : ~results[r].passed /\ results[r].severity = "critical"

OptimizeStep ==
    /\ state'.iteration_count = state.iteration_count + 1
         <=> state'.optimization_history # state.optimization_history
    /\ state'.iteration_count # state.iteration_count + 1
         => /\ state'.iteration_count = state.iteration_count
            /\ state'.generated_transactions = state.generated_transactions
    /\ state.iteration_count >= state.max_iterations
         => /\ state'.generated_transactions = state.generated_transactions
            /\ state'.iteration_count = state.iteration_count
            /\ state'.optimization_history = state.optimization_history
            /\ state'.final_transactions = state.generated_transactions
            /\ state'.awaiting_user_input
            /\ flow_node' = END

StartedAgents == {tasks[i].agent_name : i \in 1..Len(tasks)}

\* A task of the call in progress is one that never ends
SomeTaskHangs == StartedAgents \cap coord_call.hangs # {}

\* While the call is in progress: one task has been started for each agent
\* selected that is registered; it has not returned unless every task has
\* run, once, to its end, a task that raised included, and the mapping has
\* an entry for every agent started.
Barrier ==
    coord_call # Idle =>
        /\ Len(tasks) = Len(TaskNames(coord_call.agents))
        /\ \A i \in 1..Len(tasks) :
              tasks[i].agent_name = TaskNames(coord_call.agents)[i]
        /\ coord_pc = "returned" =>
              /\ \A i \in 1..Len(tasks) :
                    /\ tasks[i].done
                    /\ Cardinality({k \in 1..Len(run_order) : run_order[k] = i}) = 1
              /\ DOMAIN coord_results = StartedAgents
              /\ ~SomeTaskHangs

\* C19: analyze_transaction is a fan-out/fan-in barrier.  It starts one task
\* per selected registered subagent and never returns before every started
\* task has finished, normally or by raising; a task that raises neither
\* cancels nor skips a sibling; the result has an entry for every started
\* agent; if every started subagent terminates the call eventually returns,
\* and a subagent that never terminates keeps it from ever returning.
C19_FanOutFanInBarrier ==
    /\ []Barrier
    /\ (coord_pc = "collect" /\ ~SomeTaskHangs) ~> (coord_pc = "returned")
    /\ [][coord_pc = "collect" /\ SomeTaskHangs => coord_pc' = "collect"]_vars

\* A call has returned whose second task raised after the first had run and
\* before the two others ran: the four tasks are done and each agent has its
\* entry.
C19_Witness ==
    /\ coord_pc = "returned"
    /\ Len(tasks) = 4
    /\ run_order[2] = 2
    /\ tasks[2].outcome.raised
    /\ \A i \in 1..4 : tasks[i].done
    /\ DOMAIN coord_results = AllFour

(***************************************************************************)
(* Properties of the evaluator's findings as the optimizer reads them.     *)
(***************************************************************************)

\* A failed result handed to the optimizer has a message that starts so
Finding(start) ==
    \E i \in 1..Len(FailedResults) : StartsWith[FailedResults[i].message, start]

\* A change the optimizer lists starts so
Applied(start) ==
    \E i \in 1..Len(opt_result.applied) : StartsWith[opt_result.applied[i], start]

\* The gas-threshold failure shrinks gas
GasFindingShrinksGas ==
    Finding("Gas limit ") =>
        Applied("Reduced gas limit from " \o ToString(opt_call.before.gas) \o " to "
                  \o ToString(ThreeQuarters(opt_call.before.gas)))

\* The target mismatch rewrites to
TargetFindingRewritesTo ==
    Finding("Transaction target doesn't match objective target") =>
        /\ Optimized.to = opt_call.objective.target_address
        /\ Applied("Corrected target address to "
                     \o opt_call.objective.target_address)

\* The simulation failure applies the simulation fixes: for an insufficient
\* balance, half the value where the value is above zero
SimulationFindingAppliesFixes ==
    (/\ Finding("Transaction simulation failed: insufficient balance")
     /\ "value" \in DOMAIN opt_call.before
     /\ ToInt(opt_call.before.value) # <<0>>)
    => /\ Applied("Reduced transaction value to avoid insufficient balance")
       /\ Optimized.value
              = PyStr(BigStr[BigDivMod[ToInt(opt_call.before.value), <<2>>][1]])

\* The MEV-vulnerability finding adds the protection
MevFindingAddsProtection ==
    Finding("Transaction is vulnerable to MEV attacks") =>
        /\ "flashbots_bundle" \in DOMAIN Optimized
        /\ Optimized.flashbots_bundle = TRUE
        /\ Optimized.max_priority_fee_per_gas = "5000000000"
        /\ Applied("Added MEV protection measures")

\* The value-over-confirmation-threshold finding emits the split advisory
ValueFindingEmitsAdvisory ==
    Finding("Transaction value ") =>
        Applied("Consider splitting into multiple smaller transactions")

\* C20: the failed results of evaluate_transaction, handed to
\* optimize_transaction, trigger the strategy branch named for each finding:
\* the gas-threshold failure shrinks gas, the target mismatch rewrites to,
\* the simulation failure applies the simulation fixes, the MEV finding adds
\* flashbots_bundle = true and the 5 gwei priority fee, and the finding of a
\* value over the confirmation threshold emits the split advisory.
C20_FindingsTriggerTheirStrategies ==
    (opt_call.op = "optimize_transaction" /\ ~opt_result.raised) =>
        /\ GasFindingShrinksGas
        /\ TargetFindingRewritesTo
        /\ SimulationFindingAppliesFixes
        /\ MevFindingAddsProtection
        /\ ValueFindingEmitsAdvisory

(***************************************************************************)
(* The target correction and the alignment check it answers.               *)
(***************************************************************************)

\* The failed correctness results of the call that report a target mismatch
TargetFindings == Matching("correctness", "target doesn't match")

IsTargetMismatch(r) == ~r.passed /\ Contains[r.message, "target doesn't match"]

\* The evaluation of the transaction returned, against the call's objective
Reevaluated == evaluate_transaction(Optimized, opt_call.objective, None)

\* int(value) is defined for the input: value is absent, an int, or a string
\* of decimal digits
ValueReadable ==
    "value" \in DOMAIN opt_call.before => ~IntRaises(opt_call.before.value)

\* C21: when the results hold a failed correctness result with "target
\* doesn't match" in its message, for a transaction whose value int() reads,
\* optimize_transaction returns; with a target_address in the objective the
\* returned transaction's to is that address, the correction is listed, and
\* evaluating the returned transaction against the same objective yields no
\* target-mismatch failure; without a target_address the returned to is the
\* input's (absent if it was absent), no target correction is listed, and
\* with that finding as the one failed result the transaction comes back
\* equal to the input with nothing listed.
C21_TargetIsCorrectedAndReevaluatesClean ==
    (/\ opt_call # Idle
     /\ Len(TargetFindings) > 0
     /\ ValueReadable)
    => /\ ~opt_result.raised
       /\ IF "target_address" \in DOMAIN opt_call.objective
          THEN /\ "to" \in DOMAIN Optimized
               /\ Optimized.to = opt_call.objective.target_address
               /\ InSeq("Corrected target address to "
                           \o opt_call.objective.target_address, opt_result.applied)
               /\ \E evaluation \in {Reevaluated} :
                     /\ ~evaluation.raised
                     /\ \A i \in 1..Len(evaluation.results) :
                           ~IsTargetMismatch(evaluation.results[i])
          ELSE /\ ("to" \in DOMAIN Optimized) = ("to" \in DOMAIN opt_call.before)
               /\ "to" \in DOMAIN Optimized => Optimized.to = opt_call.before.to
               /\ \A i \in 1..Len(opt_result.applied) :
                     ~Contains[opt_result.applied[i], "Corrected target address"]
               /\ Len(FailedResults) = 1 =>
                     Optimized = opt_call.before /\ opt_result.applied = <<>>

\* A transaction sent to 0xBEEF, which evaluation against the objective's
\* target 0xdead fails on, has come back sent to 0xdead with the correction
\* as the one change listed, and its evaluation finds no target mismatch.
C21_Witness ==
    /\ opt_call # Idle
    /\ Len(FailedResults) = 1
    /\ Len(TargetFindings) = 1
    /\ ~opt_result.raised
    /\ "target_address" \in DOMAIN opt_call.objective
    /\ "to" \in DOMAIN opt_call.before
    /\ opt_call.before.to = "0xBEEF"
    /\ Optimized.to = "0xdead"
    /\ opt_result.applied = <<"Corrected target address to 0xdead">>
    /\ \E before \in {evaluate_transaction(opt_call.before, opt_call.objective, None)} :
          /\ ~before.raised
          /\ \E i \in 1..Len(before.results) : IsTargetMismatch(before.results[i])
    /\ ~Reevaluated.raised
    /\ \A i \in 1..Len(Reevaluated.results) : ~IsTargetMismatch(Reevaluated.results[i])

(***************************************************************************)
(* The fixes for a failed simulation.                                      *)
(***************************************************************************)

\* The call made has one failed result, a correctness result that reports a
\* failed simulation and no target mismatch
OneSimulationFinding ==
    /\ opt_call # Idle
    /\ Len(FailedResults) = 1
    /\ FailedResults[1].category = "correctness"
    /\ Contains[FailedResults[1].message, "simulation failed"]
    /\ ~Contains[FailedResults[1].message, "target doesn't match"]

MentionsBalance == Contains[Lower[FailedResults[1].message], "insufficient balance"]

MentionsAllowance ==
    Contains[Lower[FailedResults[1].message], "gas required exceeds allowance"]

ValuePositive ==
    /\ "value" \in DOMAIN opt_call.before
    /\ ~IntRaises(opt_call.before.value)
    /\ ~BigIsZero[ToInt(opt_call.before.value)]

\* The returned value is the base-10 string of floor(value / 2)
ValueHalved ==
    /\ "value" \in DOMAIN Optimized
    /\ "str" \in DOMAIN Optimized.value
    /\ IsIntString[Optimized.value.str]
    /\ Optimized.value.str = BigStr[ParseInt[Optimized.value.str]]
    /\ \E half \in {ParseInt[Optimized.value.str]} :
          \E twice \in {BigAdd[half, half]} :
             \/ twice = Norm[ToInt(opt_call.before.value)]
             \/ BigAdd[twice, <<1>>] = Norm[ToInt(opt_call.before.value)]

\* The returned gas is floor(1.5 * gas)
GasRaisedByHalf ==
    /\ "gas" \in DOMAIN Optimized
    /\ 2 * Optimized.gas <= 3 * opt_call.before.gas
    /\ 3 * opt_call.before.gas < 2 * Optimized.gas + 2

\* C22: for a failed correctness result whose message contains "simulation
\* failed", on a transaction whose value int() reads: if the message mentions
\* "insufficient balance" in any case and the value is above 0, the returned
\* value is the base-10 string of floor(value / 2) and nothing else changes;
\* otherwise, if the message mentions "gas required exceeds allowance" and
\* gas is present, the returned gas is floor(1.5 * gas) and nothing else
\* changes; otherwise the transaction comes back equal to the input with no
\* change listed.
C22_SimulationFixesByErrorText ==
    (OneSimulationFinding /\ ValueReadable)
    => /\ ~opt_result.raised
       /\ IF MentionsBalance /\ ValuePositive
          THEN /\ ValueHalved
               /\ KeepsAllBut({"value"})
               /\ opt_result.applied =
                     <<"Reduced transaction value to avoid insufficient balance">>
          ELSE IF MentionsAllowance /\ "gas" \in DOMAIN opt_call.before
          THEN /\ GasRaisedByHalf
               /\ KeepsAllBut({"gas"})
               /\ opt_result.applied = <<"Increased gas limit to ensure execution">>
          ELSE /\ Optimized = opt_call.before
               /\ opt_result.applied = <<>>

\* C22 with the fix chosen by the error text first, as the code's elif does:
\* a message that mentions "insufficient balance" gets the value fix or none
\* (and the call raises ValueError when int() does not read the value), and
\* the gas fix is tried only for a message that does not mention it.
C22_SimulationFixesBalanceFirst ==
    OneSimulationFinding
    => IF MentionsBalance /\ ~ValueReadable
       THEN opt_result.raised /\ opt_result.error = "ValueError"
       ELSE /\ ~opt_result.raised
            /\ IF MentionsBalance /\ ValuePositive
               THEN /\ ValueHalved
                    /\ KeepsAllBut({"value"})
                    /\ opt_result.applied =
                          <<"Reduced transaction value to avoid insufficient balance">>
               ELSE IF ~MentionsBalance /\ MentionsAllowance
                       /\ "gas" \in DOMAIN opt_call.before
               THEN /\ GasRaisedByHalf
                    /\ KeepsAllBut({"gas"})
                    /\ opt_result.applied =
                          <<"Increased gas limit to ensure execution">>
               ELSE /\ Optimized = opt_call.before
                    /\ opt_result.applied = <<>>

\* A transaction with value "1001" and gas 21001, with the one finding that
\* mentions both errors, has come back with value "500" and its gas as it
\* was: the value fix alone is applied.
C22_Witness ==
    /\ OneSimulationFinding
    /\ MentionsBalance
    /\ MentionsAllowance
    /\ ~opt_result.raised
    /\ DOMAIN opt_call.before = {"to", "value", "gas"}
    /\ opt_call.before.value = PyStr("1001")
    /\ opt_call.before.gas = 21001
    /\ Optimized.value = PyStr("500")
    /\ Optimized.gas = 21001
    /\ opt_result.applied = <<"Reduced transaction value to avoid insufficient balance">>

(***************************************************************************)
(* The findings no strategy rewrites for.                                  *)
(***************************************************************************)

\* A failed result for which the optimizer has no rewrite: an efficiency
\* finding, a security finding with "Slippage" in its message, or a finding
\* of a category without a strategy
WithoutRewrite(r) ==
    \/ r.category = "efficiency"
    \/ r.category = "security" /\ Contains[r.message, "Slippage"]
    \/ r.category \notin optimization_strategies

\* C23: when every failed result of the call is an efficiency finding, a
\* security finding with "Slippage" in its message, or of a category that
\* has no strategy (and so also when every result passed),
\* optimize_transaction returns a transaction equal to its input and an
\* empty list of applied changes.
C23_NothingToRewriteReturnsTheInput ==
    (/\ opt_call # Idle
     /\ \A i \in 1..Len(FailedResults) : WithoutRewrite(FailedResults[i]))
    => /\ ~opt_result.raised
       /\ Optimized = opt_call.before
       /\ opt_result.applied = <<>>

\* A call with two failed results, the direct-path finding and a subagent
\* error, has come back with the four-field input and nothing listed.
C23_Witness ==
    /\ opt_call # Idle
    /\ Len(FailedResults) = 2
    /\ FailedResults[1].category = "efficiency"
    /\ Contains[FailedResults[1].message, "hop path when direct path is available"]
    /\ FailedResults[2].category = "error"
    /\ ~opt_result.raised
    /\ DOMAIN opt_call.before = {"to", "value", "data", "gas"}
    /\ Optimized = opt_call.before
    /\ opt_result.applied = <<>>

(***************************************************************************)
(* The order of the strategies.                                            *)
(***************************************************************************)

\* The category whose strategy lists this change
ChangeCategory(change) ==
    IF Contains[change, "Reduced gas limit from"]
          \/ change = "Optimized calldata encoding for gas efficiency"
    THEN "gas"
    ELSE IF change \in {"Added improved slippage protection",
                        "Added MEV protection measures",
                        "Consider splitting into multiple smaller transactions"}
    THEN "security"
    ELSE IF change \in {"Switched to direct trading path",
                        "Reduced swap path complexity"}
    THEN "efficiency"
    ELSE "correctness"

\* Where a category first appears among the failed results; past their end
\* if it does not
FirstFailed(category) ==
    IF \E i \in 1..Len(FailedResults) : FailedResults[i].category = category
    THEN CHOOSE i \in 1..Len(FailedResults) :
            /\ FailedResults[i].category = category
            /\ \A j \in 1..(i - 1) : FailedResults[j].category # category
    ELSE Len(FailedResults) + 1

IsGasFinding(r) == r.category = "gas" /\ Contains[r.message, "exceeds threshold"]

IsAllowanceFinding(r) ==
    /\ r.category = "correctness"
    /\ Contains[r.message, "simulation failed: gas required exceeds allowance"]

ObjectiveKind == Lower[Get(eval_call.objective, "type", "")]

\* The call's data is missing, "0x" or at most the ten characters of a bare
\* selector
NoCalldata ==
    \/ "data" \notin DOMAIN eval_call.transaction
    \/ eval_call.transaction.data = "0x"
    \/ Len(eval_call.transaction.data) <= 10

\* C25: _determine_transaction_type always returns, and returns eth_transfer
\* for data that is missing, "0x" or no longer than a bare selector;
\* otherwise erc20_transfer for data that starts with 0xa9059cbb, whatever
\* the objective; otherwise, for an objective type with "swap" in it in any
\* case, multi_hop_swap if it also holds "multi" or "triangular",
\* complex_swap if it holds "complex", simple_swap if neither; and
\* complex_swap in every other case.
C25_TransactionTypePrecedence ==
    eval_call.op = "_determine_transaction_type"
    => /\ ~eval_result.raised
       /\ eval_result.tx_type =
             IF NoCalldata THEN "eth_transfer"
             ELSE IF SubSeq(eval_call.transaction.data, 1, 10) = "0xa9059cbb"
             THEN "erc20_transfer"
             ELSE IF ~Contains[ObjectiveKind, "swap"] THEN "complex_swap"
             ELSE IF Contains[ObjectiveKind, "multi"]
                        \/ Contains[ObjectiveKind, "triangular"]
             THEN "multi_hop_swap"
             ELSE IF Contains[ObjectiveKind, "complex"] THEN "complex_swap"
             ELSE "simple_swap"

\* An ERC20 transfer call under the objective "Multi-Hop Swap" has been
\* classified erc20_transfer.
C25_Witness ==
    /\ eval_call.op = "_determine_transaction_type"
    /\ eval_call.transaction = [data |-> TransferData]
    /\ eval_call.objective = [type |-> "Multi-Hop Swap"]
    /\ eval_result = [raised |-> FALSE, tx_type |-> "erc20_transfer"]

(***************************************************************************)
(* The simulation step of evaluate_transaction.                            *)
(***************************************************************************)

\* evaluate_transaction was called with a simulation result that is neither
\* None nor {}, for a transaction whose value int() reads
SimulatedCall ==
    /\ eval_call.op = "evaluate_transaction"
    /\ Truthy(eval_call.simulation_result)
    /\ ~IntRaises(Get(eval_call.transaction, "value", PyInt(<<0>>)))

SimulationFailures ==
    SelectSeq(eval_result.results,
              LAMBDA r : Contains[r.message, "Transaction simulation failed: "])

AssetFindings ==
    SelectSeq(eval_result.results, LAMBDA r : StartsWith[r.message, "Asset "])

\* The simulated change of an asset, 0 when the simulation reports none
SimulatedChange(asset) ==
    IF "asset_changes" \in DOMAIN eval_call.simulation_result
    THEN Get(eval_call.simulation_result.asset_changes, asset, 0)
    ELSE 0

\* The expected changes from which the simulated change deviates by more
\* than 2% of the expected delta, in the objective's order
Deviating ==
    SelectSeq(Get(eval_call.objective, "expected_changes", <<>>),
              LAMBDA change : 50 * Abs(SimulatedChange(change[1]) - change[2])
                                 > Abs(change[2]))

\* C26: with a non-empty simulation result, evaluate_transaction returns;
\* if success is false or absent it adds exactly one critical correctness
\* failure carrying the simulator's error text, compares no asset and
\* returns is_valid = false; if success is true it adds no such failure and
\* one warning, in order, for each asset of expected_changes whose simulated
\* change (0 when the simulation has none for it) deviates from the expected
\* delta by more than 2% of the expected delta, and none for the others.
C26_SimulationFailureIsCriticalAndDeviationsWarn ==
    SimulatedCall
    => /\ ~eval_result.raised
       /\ IF ~Get(eval_call.simulation_result, "success", FALSE)
          THEN /\ Len(SimulationFailures) = 1
               /\ ~SimulationFailures[1].passed
               /\ SimulationFailures[1].category = "correctness"
               /\ SimulationFailures[1].severity = "critical"
               /\ "error" \in DOMAIN eval_call.simulation_result
                    => SimulationFailures[1].message =
                          "Transaction simulation failed: "
                             \o eval_call.simulation_result.error
               /\ AssetFindings = <<>>
               /\ ~eval_result.is_valid
          ELSE /\ SimulationFailures = <<>>
               /\ Len(AssetFindings) = Len(Deviating)
               /\ \A i \in 1..Len(AssetFindings) :
                     /\ ~AssetFindings[i].passed
                     /\ AssetFindings[i].category = "correctness"
                     /\ AssetFindings[i].severity = "warning"
                     /\ StartsWith[AssetFindings[i].message,
                                   "Asset " \o Deviating[i][1] \o " change "]

(***************************************************************************)
(* The MEV inspector's estimate.                                           *)
(***************************************************************************)

\* The call has returned what the MEV inspector found
MevReturned ==
    /\ coord_call # Idle
    /\ coord_pc = "returned"
    /\ "mev" \in DOMAIN coord_results

MevCriticalFinding ==
    \E i \in 1..Len(coord_results.mev) :
       /\ ~coord_results.mev[i].passed
       /\ coord_results.mev[i].severity = "critical"

\* The objective is a swap with expected_output and min_output both present
SwapWithBothOutputs ==
    /\ Contains[Lower[Get(coord_call.objective, "type", "")], "swap"]
    /\ "expected_output" \in DOMAIN coord_call.objective
    /\ "min_output" \in DOMAIN coord_call.objective

\* 0.5 * (expected_output - min_output) > 10^17, in exact arithmetic
HalfDifferenceAboveTenthEth ==
    /\ BigLess[coord_call.objective.min_output, coord_call.objective.expected_output]
    /\ BigLess[Shift[<<2>>, 17],
               BigSub[coord_call.objective.expected_output,
                      coord_call.objective.min_output]]

\* C27: for an objective whose type contains "swap" and that has both
\* expected_output and min_output (min_output = 0 included), MEVInspector
\* emits its critical finding exactly when 0.5 * (expected_output -
\* min_output) > 10^17 wei; for an objective that is no swap or lacks either
\* field it emits no critical finding.
C27_CriticalIffHalfDifferenceAboveTenthEth ==
    MevReturned
    => (MevCriticalFinding <=> (SwapWithBothOutputs /\ HalfDifferenceAboveTenthEth))

(***************************************************************************)
(* The front-running check and the evaluator's MEV heuristic.              *)
(***************************************************************************)

\* The call has returned what the security validator found
SecurityReturned ==
    /\ coord_call # Idle
    /\ coord_pc = "returned"
    /\ "security" \in DOMAIN coord_results

IsFrontRunningFinding(r) ==
    /\ ~r.passed
    /\ r.severity = "critical"
    /\ r.message = "Large swap without MEV protection is vulnerable to sandwich attacks"

FrontRunningFound ==
    \E i \in 1..Len(coord_results.security) :
       IsFrontRunningFinding(coord_results.security[i])

\* The objective is a swap without mev_protection and the value is above
\* 5 * 10^18 wei
LargeUnprotectedSwap ==
    /\ Contains[Lower[Get(coord_call.objective, "type", "")], "swap"]
    /\ "value" \in DOMAIN coord_call.transaction
    /\ BigLess[Shift[<<5>>, 18], ToInt(coord_call.transaction.value)]
    /\ \/ "mev_protection" \notin DOMAIN coord_call.objective
       \/ ~coord_call.objective.mev_protection

\* evaluate_transaction alone, on the call's transaction and objective
EvaluatedAlso ==
    evaluate_transaction(coord_call.transaction, coord_call.objective, None)

IsMevWarning(r) ==
    /\ ~r.passed
    /\ r.category = "security"
    /\ r.severity = "warning"
    /\ r.message = "Transaction is vulnerable to MEV attacks"

\* C28: SecurityValidator's front-running check emits its critical finding
\* exactly for a swap objective without mev_protection and a value above
\* 5 * 10^18 wei; whenever it does, evaluate_transaction on the same
\* transaction and objective flags it too, as a warning, and returns
\* is_valid = true.
C28_FrontRunningCriticalEvaluatorStillValid ==
    SecurityReturned
    => /\ FrontRunningFound <=> LargeUnprotectedSwap
       /\ FrontRunningFound =>
             \E evaluation \in {EvaluatedAlso} :
                /\ ~evaluation.raised
                /\ \E i \in 1..Len(evaluation.results) :
                      IsMevWarning(evaluation.results[i])
                /\ evaluation.is_valid

\* C28 with the verdict left to the evaluator's other checks: the MEV
\* finding is a warning and does not by itself make the transaction invalid,
\* so is_valid is true unless another result failed critically, as a target
\* that does not match the objective's does.
C28_FrontRunningCriticalEvaluatorOnlyWarns ==
    SecurityReturned
    => /\ FrontRunningFound <=> LargeUnprotectedSwap
       /\ FrontRunningFound =>
             \E evaluation \in {EvaluatedAlso} :
                /\ ~evaluation.raised
                /\ \E i \in 1..Len(evaluation.results) :
                      IsMevWarning(evaluation.results[i])
                /\ evaluation.is_valid
                      <=> ~\E i \in 1..Len(evaluation.results) :
                             /\ ~evaluation.results[i].passed
                             /\ evaluation.results[i].severity = "critical"
                             /\ evaluation.results[i].message
                                   # "Transaction is vulnerable to MEV attacks"
                /\ (/\ "target_address" \notin DOMAIN coord_call.objective
                    /\ "expected_output" \notin DOMAIN coord_call.objective
                    /\ "protocol" \notin DOMAIN coord_call.objective)
                   => evaluation.is_valid

\* A swap of 5 * 10^18 + 1 wei without protection has come back from the
\* security validator with the critical front-running finding, and the
\* evaluator finds the same transaction valid, with its MEV warning.
C28_Witness ==
    /\ SecurityReturned
    /\ FrontRunningFound
    /\ coord_call.objective = [type |-> "swap"]
    /\ coord_call.transaction.value = PyInt(BigAdd[Shift[<<5>>, 18], <<1>>])
    /\ ~EvaluatedAlso.raised
    /\ EvaluatedAlso.is_valid
    /\ \E i \in 1..Len(EvaluatedAlso.results) : IsMevWarning(EvaluatedAlso.results[i])

(***************************************************************************)
(* The rounds of gas reduction.                                            *)
(***************************************************************************)

\* The gas check fails on the transaction the round started from
RoundStartedFailing ==
    ~GasCheck(opt_call.before, opt_call.objective).passed

\* The transaction the round returned passes the gas check
GasSettled ==
    /\ InRounds
    /\ ~opt_result.raised
    /\ GasCheck(Optimized, opt_call.objective).passed

\* A round on a transaction that fails the gas check returns it with gas =
\* floor(0.75 * gas), which is less, and nothing else changed; a round on
\* one that passes returns it as it is
RoundShrinksOrKeeps ==
    InRounds
    => /\ ~opt_result.raised
       /\ Optimized.gas <= opt_call.before.gas
       /\ IF RoundStartedFailing
          THEN /\ 4 * Optimized.gas <= 3 * opt_call.before.gas
               /\ 3 * opt_call.before.gas < 4 * Optimized.gas + 4
               /\ Optimized.gas < opt_call.before.gas
               /\ KeepsAllBut({"gas"})
               /\ Len(opt_result.applied) = 1
          ELSE /\ Optimized = opt_call.before
               /\ opt_result.applied = <<>>

\* A round follows on the transaction the last one returned and never
\* raises the gas; once the gas check has passed, it leaves the gas as it is
RoundFollows ==
    (InRounds /\ opt_call' # Idle)
    => /\ opt_call'.before = Optimized
       /\ opt_call'.round = opt_call.round + 1
       /\ heap'[opt_result'.transaction].gas <= Optimized.gas
       /\ GasSettled => heap'[opt_result'.transaction].gas = Optimized.gas

OptimizationDue ==
    /\ state.evaluation_results # <<>>
    /\ ~state.evaluation_results[Len(state.evaluation_results)].all_valid
    /\ state.iteration_count < state.max_iterations

\* A run has started at analyze with the user's approval as the last message
ApprovalArrives ==
    /\ flow_node = "analyze"
    /\ OptimizationDue
    /\ LastApproves(state.messages)

\* C30: when the last evaluation is not all_valid, iteration_count <
\* max_iterations and the user then sends an approval, the graph goes from
\* analyze to the optimize step, and from the optimize step to a
\* re-evaluation before it ends.
C30_ApprovalRoutesToOptimizeThenEvaluate ==
    /\ [][ApprovalArrives => flow_node' = "optimize"]_vars
    /\ [][(flow_node = "optimize" /\ OptimizationDue) => flow_node' = "evaluate"]_vars

\* How many steps a run takes at most from a node on: one at evaluate, which
\* always ends the run, one more at generate and at optimize, three at analyze
StepsLeft(node) ==
    CASE node = "analyze" -> 3
      [] node = "generate" -> 2
      [] node = "optimize" -> 2
      [] node = "evaluate" -> 1
      [] OTHER -> 0

\* Every step of a run leaves fewer steps to take, so that every run of the
\* graph ends after at most three steps.
RunsEnd == [][flow_node # END => StepsLeft(flow_node') < StepsLeft(flow_node)]_vars
=============================================================================
